---- MODULE Spec2Model ----
(***************************************************************************)
(* Model of the review collection pipeline of the scrapers:                *)
(*   scrapers/apple_app_store/analyze_review_discrepancy.js  (worldwide)   *)
(*   scrapers/apple_app_store/apple_app_store_mendi_reviews_scraper.js     *)
(*   scrapers/google_play/google_play_mendi_reviews_scraper_WORLDWIDE.js   *)
(*   scrapers/zendesk/zendesk_tickets_scraper.js                           *)
(*                                                                         *)
(* The specifications share the variables of the module:                   *)
(*   SpecDedup    removeDuplicates applied to bounded review sequences     *)
(*   SpecNorm     the CSV and JSON maps over the unique reviews            *)
(*   Spec         the region scheduler and the per-region fetch loops      *)
(*   SpecFetch    one fetch of a country, and the single-country script    *)
(*   SpecAbort    Spec with a caller that may ask the run to stop          *)
(*   SpecConvert  convertTicketsToReviews on bounded tickets and ratings   *)
(*   SpecZendesk  scrapeZendeskData with its two concurrent fetches        *)
(*   SpecCeiling  the fetch loops against a source that never runs out     *)
(*   SpecCursor   the fetches that page by token or next-page URL          *)
(* A specification holds the variables of the others at their idle values. *)
(***************************************************************************)
EXTENDS Integers, Sequences, FiniteSets, TLC

VARIABLES
    platform,       \* "app_store" | "google_play": the scraper that runs
    \* ---- removeDuplicates (SpecDedup)
    dstage,         \* "idle" | "input" | "once" | "twice"
    reviews,        \* the argument of removeDuplicates
    unique,         \* removeDuplicates(reviews)
    removed,        \* the number the function logs: reviews.length - unique.length
    unique2,        \* removeDuplicates(unique)
    \* ---- uniqueReviews.map(r => ...) for the CSV and the JSON (SpecNorm)
    nstage,         \* "idle" | "csv" | "json" | "threw": the map that runs
    rawIn,          \* the elements of uniqueReviews mapped so far
    csvRows,        \* the CSV lines built from them
    jsonData,       \* the objects built from them
    clock,          \* the last reading of Date.now(), counted from the start
    \* ---- the scrapers' fetch loops (Spec)
    script,         \* "worldwide": scrapeAllReviewsGlobal; "single": scrapeAllReviews
    COUNTRIES,      \* the list of countries the run goes through
    maxPages,       \* the argument maxPages / maxBatches of scrapeCountryReviews
    shared,         \* whether the provider serves the same reviews in every country
    abortRequested, \* whether the caller of the script has asked it to stop
    pc,             \* where the script stands: "loop", "request", "waiting" (for
                    \* the response to a request), "returned", "done", "failed"
    i,              \* the index of the scheduler's for loop
    allGlobalReviews,
    countriesWithReviews,
    totalCountriesProcessed,
    allReviews,     \* the locals of the running fetch
    pageCount,
    consecutiveEmptyPages,
    nextPaginationToken,
    countryReviews, \* the value the last fetch returned
    written,        \* the records given to the CSV and JSON files
    filesWritten,   \* whether both files were written
    csvWrite,       \* "none" | "written" | "failed": the call that writes the CSV file
    jsonWrite,      \* the same for the JSON file
    \* ---- what happened, kept for the properties
    pageLog,        \* the responses of the running or last fetch, in request order
    stop,           \* how the loop of the running or last fetch ended
    delays,         \* the inter-page delays taken by the running or last fetch
    regionDelays,   \* the inter-country delays taken
    fetches,        \* per country: the calls of scrapeCountryReviews
    returned,       \* per country: the value its fetch returned
    ended,          \* per country: how the loop of its fetch ended
    logged,         \* per country: the closing console message of its fetch
    inFlight,       \* the requests sent and not yet answered
    requests,       \* the requests sent, in the order of sending
    \* ---- convertTicketsToReviews (SpecConvert)
    zstage,         \* "idle" | "input" | "converted" | "threw"
    tickets,        \* the argument tickets
    satisfactionRatings,    \* the argument satisfactionRatings
    ticketReviews,  \* the reviews the function returns
    \* ---- scrapeZendeskData (SpecZendesk)
    ZENDESK_CONFIG, \* subdomain, email and apiToken as the environment gives them
    api,            \* per endpoint: how many pages the API has, and their bodies
    zpc,            \* "idle" | "start" | "fetching" | "done" | "config error" |
                    \* "no tickets" | "failed": where scrapeZendeskData stands
    zfetch,         \* per endpoint: the locals of its fetch function
    zfiles          \* the output files written

dedupVars == <<dstage, reviews, unique, removed, unique2>>
normVars == <<nstage, rawIn, csvRows, jsonData, clock>>
configVars == <<script, COUNTRIES, maxPages, shared, abortRequested>>
schedVars == <<i, allGlobalReviews, countriesWithReviews, totalCountriesProcessed,
               countryReviews, written, filesWritten>>
fetchVars == <<allReviews, pageCount, consecutiveEmptyPages, nextPaginationToken>>
ghostVars == <<pageLog, stop, delays, regionDelays, fetches, returned, ended, logged,
               inFlight, requests>>
writeVars == <<csvWrite, jsonWrite>>
runVars == <<configVars, pc, schedVars, fetchVars, ghostVars, writeVars>>

convertVars == <<zstage, tickets, satisfactionRatings, ticketReviews>>

zendeskVars == <<ZENDESK_CONFIG, api, zpc, zfetch, zfiles>>

vars == <<platform, dedupVars, normVars, runVars, convertVars, zendeskVars>>

Platforms == {"app_store", "google_play"}

(***************************************************************************)
(* JavaScript values.  A string is a sequence of one-character strings, so *)
(* that the template literal `${a}_${b}_${c}` is a real concatenation.     *)
(* Every value carries the same three fields, so that values of different  *)
(* types can be compared.                                                  *)
(***************************************************************************)
Undefined == [t |-> "undefined", n |-> 0, s |-> <<>>]
Null == [t |-> "null", n |-> 0, s |-> <<>>]
Num(n) == [t |-> "number", n |-> n, s |-> <<>>]
Str(s) == [t |-> "string", n |-> 0, s |-> s]

\* ToBoolean(v) = false: undefined, null, 0 and the empty string
Falsy(v) ==
    \/ v.t \in {"undefined", "null"}
    \/ v.t = "number" /\ v.n = 0
    \/ v.t = "string" /\ v.s = <<>>

\* a || b
Or(a, b) == IF Falsy(a) THEN b ELSE a

Digit(d) == << "0", "1", "2", "3", "4", "5", "6", "7", "8", "9" >>[d + 1]

RECURSIVE Digits(_)
Digits(n) == IF n < 10 THEN <<Digit(n)>> ELSE Digits(n \div 10) \o <<Digit(n % 10)>>

\* String(v), the conversion a template literal applies to ${v}
StringOf(v) ==
    CASE v.t = "string" -> v.s
      [] v.t = "number" -> IF v.n < 0 THEN <<"-">> \o Digits(-v.n) ELSE Digits(v.n)
      [] v.t = "null" -> << "n", "u", "l", "l" >>
      [] OTHER -> << "u", "n", "d", "e", "f", "i", "n", "e", "d" >>

MaxReviews == 3

UserNames == { Str(<<"a">>), Str(<<"a", "_">>) }
Texts == { Str(<<"a">>), Str(<<"_", "a">>) }
Dates == { Str(<<"1">>), Str(<<"2">>) }

\* The date of a review: app-store-scraper gives it as updated,
\* google-play-scraper as date.
DateOf(p, review) == IF p = "app_store" THEN review.updated ELSE review.date

\* The raw reviews of the deduplication inputs. score and country vary with
\* the storefront the review came from.
RawReviews(p) ==
    { [userName |-> u, text |-> t, score |-> Num(sc[1]), country |-> Str(sc[2]),
       updated |-> IF p = "app_store" THEN d ELSE Undefined,
       date |-> IF p = "app_store" THEN Undefined ELSE d] :
        u \in UserNames, t \in Texts, d \in Dates,
        sc \in { <<4, <<"u", "s">> >>, <<5, <<"g", "b">> >> } }

SeqUpTo(S, n) == UNION { [1..k -> S] : k \in 0..n }

\* `${review.userName}_${review.text}_${review.updated}` (App Store) and
\* `${review.userName}_${review.text}_${review.date}` (Google Play)
Key(p, review) ==
    StringOf(review.userName) \o <<"_">> \o StringOf(review.text)
        \o <<"_">> \o StringOf(DateOf(p, review))

\* A buggy loop body: a duplicate takes its key out of the set again.
DedupStepToggle(p, acc, review) ==
    IF Key(p, review) \in acc.seen
    THEN [seen |-> acc.seen \ {Key(p, review)}, unique |-> acc.unique]
    ELSE [seen |-> acc.seen \cup {Key(p, review)}, unique |-> Append(acc.unique, review)]

\* A buggy loop body: the later occurrence replaces the earlier one.
DedupStepKeepLast(p, acc, review) ==
    IF Key(p, review) \in acc.seen
    THEN [seen |-> acc.seen,
          unique |-> Append(SelectSeq(acc.unique, LAMBDA r : Key(p, r) # Key(p, review)), review)]
    ELSE [seen |-> acc.seen \cup {Key(p, review)}, unique |-> Append(acc.unique, review)]

\* A buggy loop body: the key is never added to the set.
DedupStepNeverSeen(p, acc, review) ==
    IF Key(p, review) \in acc.seen
    THEN acc
    ELSE [seen |-> acc.seen, unique |-> Append(acc.unique, review)]

\* The body of the for loop: if (!seen.has(key)) { seen.add(key); unique.push(review) }
DedupStep(p, acc, review) ==
    IF Key(p, review) \in acc.seen
    THEN acc
    ELSE [seen |-> acc.seen \cup {Key(p, review)}, unique |-> Append(acc.unique, review)]

RECURSIVE DedupLoop(_, _, _)
DedupLoop(p, rs, acc) ==
    IF rs = <<>> THEN acc ELSE DedupLoop(p, Tail(rs), DedupStep(p, acc, Head(rs)))

removeDuplicates(p, rs) == DedupLoop(p, rs, [seen |-> {}, unique |-> <<>>]).unique

\* ---- SpecDedup
DedupIdle ==
    /\ dstage = "idle"
    /\ reviews = <<>>
    /\ unique = <<>>
    /\ removed = 0
    /\ unique2 = <<>>

NormIdle ==
    /\ nstage = "idle"
    /\ rawIn = <<>>
    /\ csvRows = <<>>
    /\ jsonData = <<>>
    /\ clock = 0

ConvertIdle ==
    /\ zstage = "idle"
    /\ tickets = <<>>
    /\ satisfactionRatings = <<>>
    /\ ticketReviews = <<>>

ZendeskIdle ==
    /\ ZENDESK_CONFIG = <<>>
    /\ api = <<>>
    /\ zpc = "idle"
    /\ zfetch = <<>>
    /\ zfiles = {}

\* no script runs
RunIdle ==
    /\ script = "none"
    /\ COUNTRIES = <<>>
    /\ maxPages = 0
    /\ shared = FALSE
    /\ abortRequested = FALSE
    /\ pc = "idle"
    /\ i = 0
    /\ allGlobalReviews = <<>>
    /\ countriesWithReviews = 0
    /\ totalCountriesProcessed = 0
    /\ allReviews = <<>>
    /\ pageCount = 0
    /\ consecutiveEmptyPages = 0
    /\ nextPaginationToken = Null
    /\ countryReviews = <<>>
    /\ written = <<>>
    /\ filesWritten = FALSE
    /\ pageLog = <<>>
    /\ stop = "none"
    /\ delays = 0
    /\ regionDelays = 0
    /\ fetches = <<>>
    /\ returned = <<>>
    /\ ended = <<>>
    /\ logged = <<>>
    /\ inFlight = 0
    /\ requests = <<>>
    /\ csvWrite = "none"
    /\ jsonWrite = "none"

InitDedup ==
    /\ platform \in Platforms
    /\ RunIdle
    /\ NormIdle
    /\ ConvertIdle
    /\ ZendeskIdle
    /\ dstage = "input"
    /\ reviews \in SeqUpTo(RawReviews(platform), MaxReviews)
    /\ unique = <<>>
    /\ removed = 0
    /\ unique2 = <<>>

\* const uniqueReviews = removeDuplicates(allGlobalReviews)
Dedupe ==
    /\ dstage = "input"
    /\ unique' = removeDuplicates(platform, reviews)
    /\ removed' = Len(reviews) - Len(removeDuplicates(platform, reviews))
    /\ dstage' = "once"
    /\ UNCHANGED <<zendeskVars, convertVars, platform, reviews, unique2, normVars, runVars>>

\* removeDuplicates applied to its own result
DedupeAgain ==
    /\ dstage = "once"
    /\ unique2' = removeDuplicates(platform, unique)
    /\ dstage' = "twice"
    /\ UNCHANGED <<zendeskVars, convertVars, platform, reviews, unique, removed, normVars, runVars>>

NextDedup == Dedupe \/ DedupeAgain

SpecDedup == InitDedup /\ [][NextDedup]_vars

(***************************************************************************)
(* Claims about removeDuplicates                                           *)
(***************************************************************************)
\* the positions of X that hold the first occurrence of their key
FirstPositions(X) ==
    { m \in 1..Len(X) : \A j \in 1..(m - 1) : Key(platform, X[j]) # Key(platform, X[m]) }

\* the elements of a finite set of numbers in increasing order
Ascending(S) ==
    CHOOSE f \in [1..Cardinality(S) -> S] :
        \A a, b \in 1..Cardinality(S) : a < b => f[a] < f[b]

\* C1: removeDuplicates(X) is the subsequence of X made of the first
\* occurrence of each fingerprint (the key the function builds), in the
\* order of X; no later occurrence of a key is kept.
C1_FirstOccurrenceSubsequence ==
    dstage # "input" =>
        LET pos == Ascending(FirstPositions(reviews))
        IN  unique = [k \in 1..Cardinality(FirstPositions(reviews)) |-> reviews[pos[k]]]

\* a duplicate with another score was dropped and the first one kept
C1_Witness ==
    /\ dstage = "once"
    /\ Len(reviews) = 3
    /\ Len(unique) = 2
    /\ Key(platform, reviews[1]) = Key(platform, reviews[3])
    /\ reviews[1].score # reviews[3].score
    /\ unique[1] = reviews[1]

\* C2: removeDuplicates(removeDuplicates(X)) = removeDuplicates(X).
C2_Idempotent == dstage = "twice" => unique2 = unique

C2_Witness ==
    /\ dstage = "twice"
    /\ Len(unique) >= 2
    /\ Len(unique) < Len(reviews)
    /\ unique2 = unique

Triple(review) == <<review.userName, review.text, DateOf(platform, review)>>

\* C3: two records are merged if and only if their (userName, text, date)
\* triples are equal: the result holds exactly one record for each triple of
\* the input, the first one carrying it.
C3_MergedIffEqualTriples ==
    dstage = "once" =>
        /\ Len(unique) = Cardinality({ Triple(reviews[m]) : m \in 1..Len(reviews) })
        /\ \A m \in 1..Len(reviews) :
               \E k \in 1..Len(unique) : Triple(unique[k]) = Triple(reviews[m])

\* the keys of the records of a sequence
Keys(rs) == { Key(platform, rs[m]) : m \in 1..Len(rs) }

\* C26: removeDuplicates loses no fingerprint: the keys of its result are
\* the keys of its argument, every key is the key of exactly one record of
\* the result, and the number it reports as removed is the length of the
\* argument minus the length of the result.
C26_NoFingerprintLost ==
    dstage # "input" =>
        /\ Keys(unique) = Keys(reviews)
        /\ \A a, b \in 1..Len(unique) :
               Key(platform, unique[a]) = Key(platform, unique[b]) => a = b
        /\ Len(unique) = Cardinality(Keys(reviews))
        /\ removed = Len(reviews) - Len(unique)
        /\ removed >= 0

\* three records with two keys: one was removed
C26_Witness ==
    /\ dstage = "once"
    /\ Len(reviews) = 3
    /\ Cardinality(Keys(reviews)) = 2
    /\ Key(platform, reviews[2]) = Key(platform, reviews[3])
    /\ Len(unique) = 2
    /\ removed = 1

(***************************************************************************)
(* The JSON objects of scrapeAllReviewsGlobal                              *)
(***************************************************************************)
MaxRecords == 2

\* Raw reviews as the provider may deliver them: fields can be missing, and
\* score is whatever the provider sends.
Scores == { Undefined, Num(0), Num(1), Num(5), Num(6), Str(<<"5">>) }

\* the character the CSV cells are quoted with
Quote == "\""

NormRaws(p) ==
    { [userName |-> u, text |-> Str(<<"t">>), score |-> sc, helpfulCount |-> h,
       title |-> Undefined, version |-> Undefined,
       replyDate |-> Undefined, replyText |-> Undefined,
       country |-> Str(<<"u", "s">>),
       updated |-> IF p = "app_store" THEN Str(<<"1">>) ELSE Undefined,
       date |-> IF p = "app_store" THEN Undefined ELSE Str(<<"1">>)] :
        u \in { Undefined, Str(<<"a">>), Str(<<"a", Quote>>), Num(4) },
        sc \in Scores, h \in { Undefined, Num(2) } }

\* Math.random().toString(36).substr(2, 9)
RandomSuffixes == { <<"k">>, <<"z">> }

Anonymous == Str(<< "A", "n", "o", "n", "y", "m", "o", "u", "s" >>)
Unknown == Str(<< "u", "n", "k", "n", "o", "w", "n" >>)
EmptyString == Str(<<>>)

\* the date of the App Store object: '' when r.updated || r.date is falsy, the
\* string itself, and String(dateField) for another value
AppStoreDate(r) ==
    LET dateField == Or(r.updated, r.date)
    IN  IF Falsy(dateField) THEN EmptyString
        ELSE IF dateField.t = "string" THEN dateField
        ELSE Str(StringOf(dateField))

\* rating: r.score || null
Rating(score) == Or(score, Null)

\* `app_store_${Date.now()}_${Math.random().toString(36).substr(2, 9)}`
AppStoreId(now, rnd) ==
    Str(<< "a", "p", "p", "_", "s", "t", "o", "r", "e", "_" >> \o Digits(now) \o <<"_">> \o rnd)

\* `google_play_${Date.now()}_${Math.random().toString(36).substr(2, 9)}`
GooglePlayId(now, rnd) ==
    Str(<< "g", "o", "o", "g", "l", "e", "_", "p", "l", "a", "y", "_" >>
            \o Digits(now) \o <<"_">> \o rnd)

AppStoreJson(r, now, rnd) ==
    [id |-> AppStoreId(now, rnd),
     author |-> Or(r.userName, Anonymous),
     rating |-> Rating(r.score),
     review |-> Or(r.text, EmptyString),
     title |-> Or(r.title, EmptyString),
     date |-> AppStoreDate(r),
     helpful |-> Or(r.helpfulCount, Num(0)),
     version |-> Or(r.version, EmptyString),
     reply_date |-> Undefined,
     reply_text |-> Undefined,
     platform |-> Str(<< "a", "p", "p", "_", "s", "t", "o", "r", "e" >>),
     country |-> Or(r.country, Unknown)]

GooglePlayJson(r, now, rnd) ==
    [id |-> GooglePlayId(now, rnd),
     author |-> Or(r.userName, Anonymous),
     rating |-> Rating(r.score),
     review |-> Or(r.text, EmptyString),
     title |-> Undefined,
     date |-> Or(r.date, EmptyString),
     helpful |-> Or(r.helpfulCount, Num(0)),
     version |-> Undefined,
     reply_date |-> Or(r.replyDate, EmptyString),
     reply_text |-> Or(r.replyText, EmptyString),
     platform |-> Str(<< "g", "o", "o", "g", "l", "e", "_", "p", "l", "a", "y" >>),
     country |-> Or(r.country, Unknown)]

\* String.prototype.replace(/"/g, '""')
RECURSIVE Escape(_)
Escape(s) ==
    IF s = <<>> THEN <<>>
    ELSE (IF Head(s) = Quote THEN <<Quote, Quote>> ELSE <<Head(s)>>) \o Escape(Tail(s))

\* `"${a}","${b}",...`
RECURSIVE CsvLine(_)
CsvLine(cells) ==
    IF cells = <<>> THEN <<>>
    ELSE <<Quote>> \o cells[1] \o <<Quote>>
            \o (IF Len(cells) > 1 THEN <<",">> ELSE <<>>) \o CsvLine(Tail(cells))

\* (v || d).replace(...) throws TypeError: v is truthy and not a string
NotReplaceable(v) == ~Falsy(v) /\ v.t # "string"

\* the columns of the App Store CSV:
\* Date,Country,User Name,Score,Title,Review Text,Version,Helpful Count
AppStoreCsvCells(r) ==
    << AppStoreDate(r).s,
       Escape(StringOf(Or(r.country, Unknown))),
       Escape(StringOf(Or(r.userName, EmptyString))),
       StringOf(Or(r.score, EmptyString)),
       Escape(StringOf(Or(r.title, EmptyString))),
       Escape(StringOf(Or(r.text, EmptyString))),
       Escape(StringOf(Or(r.version, EmptyString))),
       StringOf(Or(r.helpfulCount, EmptyString)) >>

AppStoreCsvThrows(r) ==
    \E v \in { r.country, r.userName, r.title, r.text, r.version } : NotReplaceable(v)

\* the columns of the Google Play CSV:
\* Date,Country,User Name,Score,Review Text,Helpful Count,Reply Date,Reply Text
GooglePlayCsvCells(r) ==
    << StringOf(Or(r.date, EmptyString)),
       Escape(StringOf(Or(r.country, Unknown))),
       Escape(StringOf(Or(r.userName, EmptyString))),
       StringOf(Or(r.score, EmptyString)),
       Escape(StringOf(Or(r.text, EmptyString))),
       StringOf(Or(r.helpfulCount, EmptyString)),
       StringOf(Or(r.replyDate, EmptyString)),
       Escape(StringOf(Or(r.replyText, EmptyString))) >>

GooglePlayCsvThrows(r) ==
    \E v \in { r.country, r.userName, r.text, r.replyText } : NotReplaceable(v)

CsvCells(p, r) == IF p = "app_store" THEN AppStoreCsvCells(r) ELSE GooglePlayCsvCells(r)
CsvThrows(p, r) == IF p = "app_store" THEN AppStoreCsvThrows(r) ELSE GooglePlayCsvThrows(r)

InitNorm ==
    /\ platform \in Platforms
    /\ RunIdle
    /\ DedupIdle
    /\ ConvertIdle
    /\ ZendeskIdle
    /\ nstage = "csv"
    /\ rawIn = <<>>
    /\ csvRows = <<>>
    /\ jsonData = <<>>
    /\ clock = 0

\* one call of the callback of the first uniqueReviews.map, which builds the
\* CSV line of a review
CsvRow ==
    /\ nstage = "csv"
    /\ Len(rawIn) < MaxRecords
    /\ \E r \in NormRaws(platform) :
        /\ rawIn' = Append(rawIn, r)
        /\ IF CsvThrows(platform, r)
           THEN /\ nstage' = "threw"
                /\ UNCHANGED csvRows
           ELSE /\ csvRows' = Append(csvRows, CsvLine(CsvCells(platform, r)))
                /\ UNCHANGED nstage
    /\ UNCHANGED <<zendeskVars, convertVars, platform, dedupVars, runVars, jsonData, clock>>

\* the first map has gone through uniqueReviews; the second one starts
CsvDone ==
    /\ nstage = "csv"
    /\ nstage' = "json"
    /\ UNCHANGED <<zendeskVars, convertVars, platform, dedupVars, runVars, rawIn, csvRows, jsonData, clock>>

\* one call of the callback of the second map of analyze_review_discrepancy.js,
\* which builds the JSON object of the next review; Date.now() reads the
\* clock, which may have advanced since the last call
MapAppStore ==
    /\ platform = "app_store"
    /\ nstage = "json"
    /\ Len(jsonData) < Len(rawIn)
    /\ \E tick \in {0, 1}, rnd \in RandomSuffixes :
        /\ clock' = clock + tick
        /\ jsonData' = Append(jsonData, AppStoreJson(rawIn[Len(jsonData) + 1], clock + tick, rnd))
    /\ UNCHANGED <<zendeskVars, convertVars, platform, dedupVars, runVars, nstage, rawIn, csvRows>>

\* one call of the map callback of google_play_mendi_reviews_scraper_WORLDWIDE.js
MapGooglePlay ==
    /\ platform = "google_play"
    /\ nstage = "json"
    /\ Len(jsonData) < Len(rawIn)
    /\ \E tick \in {0, 1}, rnd \in RandomSuffixes :
        /\ clock' = clock + tick
        /\ jsonData' = Append(jsonData, GooglePlayJson(rawIn[Len(jsonData) + 1], clock + tick, rnd))
    /\ UNCHANGED <<zendeskVars, convertVars, platform, dedupVars, runVars, nstage, rawIn, csvRows>>

NextNorm == CsvRow \/ CsvDone \/ MapAppStore \/ MapGooglePlay

SpecNorm == InitNorm /\ [][NextNorm]_vars

\* C4: every record of the JSON output has a rating that is null or an
\* integer in 1..5, whatever the raw score was.
C4_RatingNullOrOneToFive ==
    \A k \in 1..Len(jsonData) :
        \/ jsonData[k].rating = Null
        \/ jsonData[k].rating.t = "number" /\ jsonData[k].rating.n \in 1..5

\* C13: no two objects of one run's JSON output have the same id, whatever
\* Date.now() and Math.random() give.
C13_IdsUnique ==
    \A a, b \in 1..Len(jsonData) : a # b => jsonData[a].id # jsonData[b].id

\* the cells of a CSV line read back: quoted cells separated by commas, a
\* doubled quote inside a cell standing for one quote
RECURSIVE ParseCells(_, _, _, _, _)
ParseCells(line, pos, inCell, cell, cells) ==
    IF pos > Len(line) THEN (IF inCell THEN Append(cells, cell) ELSE cells)
    ELSE IF ~inCell
         THEN ParseCells(line, pos + 1, line[pos] = Quote, <<>>, cells)
         ELSE IF line[pos] # Quote
              THEN ParseCells(line, pos + 1, TRUE, Append(cell, line[pos]), cells)
              ELSE IF pos < Len(line) /\ line[pos + 1] = Quote
                   THEN ParseCells(line, pos + 2, TRUE, Append(cell, Quote), cells)
                   ELSE ParseCells(line, pos + 1, FALSE, <<>>, Append(cells, cell))

ParseCsvLine(line) == ParseCells(line, 1, FALSE, <<>>, <<>>)

\* a cell read back equals a JSON value: the text of a string or number,
\* nothing for null
CellIs(cell, v) == cell = (IF v.t \in {"null", "undefined"} THEN <<>> ELSE StringOf(v))

\* C17: for every record written, the CSV columns Date, Country, User Name,
\* Score, Review Text and Helpful Count read back equal the fields date,
\* country, author, rating, review and helpful of the JSON object of the
\* same record, also when userName, score or helpfulCount is missing or
\* falsy.
C17_CsvEqualsJson ==
    \A k \in 1..Len(jsonData) :
        LET cells == ParseCsvLine(csvRows[k])
            obj == jsonData[k]
            reviewColumn == IF platform = "app_store" THEN 6 ELSE 5
            helpfulColumn == IF platform = "app_store" THEN 8 ELSE 6
        IN  /\ Len(cells) = 8
            /\ CellIs(cells[1], obj.date)
            /\ CellIs(cells[2], obj.country)
            /\ CellIs(cells[3], obj.author)
            /\ CellIs(cells[4], obj.rating)
            /\ CellIs(cells[reviewColumn], obj.review)
            /\ CellIs(cells[helpfulColumn], obj.helpful)

(***************************************************************************)
(* The fetch loops: scrapeCountryReviews and scrapeAllReviewsGlobal of the  *)
(* two worldwide scrapers, and scrapeAllReviews of the App Store scraper.  *)
(***************************************************************************)
\* the number of countries of a run of scrapeAllReviewsGlobal, and the
\* largest page limit its fetches are given
NumCountries == 2
MaxPagesRun == 2

\* the largest page limit given to a single fetch
MaxPages == 3

\* the head of the COUNTRIES list of each worldwide scraper
CountryList(p) ==
    IF p = "app_store"
    THEN << <<"u", "s">>, <<"c", "a">>, <<"m", "x">>, <<"g", "t">> >>
    ELSE << <<"u", "s">>, <<"g", "b">>, <<"c", "a">>, <<"a", "u">> >>

\* if (reviews.length < 5) break;  if (reviews.length < 10) break;
MinPageSizeAppStore == 5
MinPageSizeGooglePlay == 10
MinPageSize(p) == IF p = "app_store" THEN MinPageSizeAppStore ELSE MinPageSizeGooglePlay

\* while (pageCount < 200) of scrapeAllReviews
PageLimitSingle == 200

\* the sizes of the pages the provider answers with
PageSizes(p) == { 0, MinPageSize(p) - 1, MinPageSize(p) }

\* The reviews of one page as the provider returns them. Reviews of one
\* country differ in user name or date; the reviews of two countries differ
\* unless the provider serves the same reviews everywhere.
PageRecords(p, sh, c, page, n) ==
    [k \in 1..n |->
        [userName |-> Str(<<"u">> \o Digits(k)),
         text |-> Str(IF sh THEN <<"t">> ELSE <<"t">> \o c),
         score |-> Num(5),
         country |-> Undefined,
         updated |-> IF p = "app_store" THEN Str(Digits(page)) ELSE Undefined,
         date |-> IF p = "app_store" THEN Undefined ELSE Str(Digits(page))]]

\* reviews.map(r => ({...r, country: countryCode}))
WithCountry(recs, c) == [k \in DOMAIN recs |-> [recs[k] EXCEPT !.country = Str(c)]]

\* the token of the response to request number page
TokenAfter(page) == Str(<<"t">> \o Digits(page))

\* a buggy threshold test: a short page does not end the fetch
ShortPageNever(p, n) == FALSE

\* if (reviews.length < 5) / if (reviews.length < 10)
ShortPage(p, n) == n < MinPageSize(p)

\* a buggy test: the first empty page ends the fetch
EmptyStopAtOnce(cep) == cep >= 1

\* if (consecutiveEmptyPages >= 2)
EmptyStop(cep) == cep >= 2

\* a buggy loop condition: one page too many
MorePagesOffByOne(count, limit) == count <= limit

\* while (pageCount < maxPages)
MorePages(count, limit) == count < limit

\* a buggy catch block: return []
CaughtEmpty(all) == <<>>

\* catch (error) { ...; return allReviews; }
Caught(all) == all

\* the closing console message of scrapeCountryReviews
ClosingMessage(all) == IF Len(all) > 0 THEN "complete" ELSE "no reviews"

\* console.error(`Error scraping ${countryCode}:`, error.message)
CaughtMessage == "error"

\* new Date(s).getTime() for the date strings of the model, which are digit
\* strings that grow with time
RECURSIVE DateNumber(_)
DateNumber(ds) ==
    IF ds = <<>> THEN 0
    ELSE LET d == CHOOSE v \in 0..9 : Digit(v) = ds[Len(ds)]
         IN  10 * DateNumber(SubSeq(ds, 1, Len(ds) - 1)) + d

\* new Date(r.updated || r.date) and new Date(r.date)
SortDate(p, r) ==
    DateNumber(IF p = "app_store" THEN Or(r.updated, r.date).s ELSE r.date.s)

\* a run that writes the records as removeDuplicates returns them
SortOmitted(p, rs) == rs

\* Array.prototype.sort with (a, b) => date(b) - date(a) is stable: the
\* records come out by falling date, and the records of one date in the
\* order they had
RECURSIVE SortLoop(_, _, _)
SortLoop(p, rs, ds) ==
    IF ds = {} THEN <<>>
    ELSE LET d == CHOOSE x \in ds : \A y \in ds : y <= x
         IN  SelectSeq(rs, LAMBDA r : SortDate(p, r) = d) \o SortLoop(p, rs, ds \ {d})

SortByDate(p, rs) == SortLoop(p, rs, { SortDate(p, rs[k]) : k \in 1..Len(rs) })

\* a buggy scheduler: a country without reviews ends the loop
AfterCountryStopOnEmpty(index, n) == IF n = 0 THEN Len(COUNTRIES) ELSE index + 1

\* a buggy scheduler: after a country without reviews it goes back one country
AfterCountryRevisit(index, n) == IF n = 0 /\ index > 0 THEN index - 1 ELSE index + 1

\* for (let i = 0; i < COUNTRIES.length; i++): the next index
AfterCountry(index, n) == index + 1

\* the start of a script, before its first request
Start ==
    /\ pc = IF script = "single" THEN "request" ELSE "loop"
    /\ abortRequested = FALSE
    /\ i = 0
    /\ allGlobalReviews = <<>>
    /\ countriesWithReviews = 0
    /\ totalCountriesProcessed = 0
    /\ allReviews = <<>>
    /\ pageCount = 0
    /\ consecutiveEmptyPages = 0
    /\ nextPaginationToken = Null
    /\ countryReviews = <<>>
    /\ written = <<>>
    /\ filesWritten = FALSE
    /\ pageLog = <<>>
    /\ stop = "none"
    /\ delays = 0
    /\ regionDelays = 0
    /\ fetches = [r \in 1..Len(COUNTRIES) |-> 0]
    /\ returned = [r \in 1..Len(COUNTRIES) |-> <<>>]
    /\ ended = [r \in 1..Len(COUNTRIES) |-> "none"]
    /\ logged = [r \in 1..Len(COUNTRIES) |-> "none"]
    /\ inFlight = 0
    /\ requests = <<>>
    /\ csvWrite = "none"
    /\ jsonWrite = "none"
    /\ DedupIdle
    /\ NormIdle
    /\ ConvertIdle
    /\ ZendeskIdle

\* a run of scrapeAllReviewsGlobal over NumCountries countries
Init ==
    /\ platform \in Platforms
    /\ script = "worldwide"
    /\ COUNTRIES = SubSeq(CountryList(platform), 1, NumCountries)
    /\ maxPages \in 1..MaxPagesRun
    /\ shared \in BOOLEAN
    /\ Start

\* one fetch: scrapeAllReviewsGlobal over a single country with a page limit
\* of up to MaxPages, or scrapeAllReviews of the App Store scraper, which
\* fetches 'us' with its limit of 200 pages
InitFetch ==
    /\ platform \in Platforms
    /\ script \in {"worldwide", "single"}
    /\ script = "single" => platform = "app_store"
    /\ COUNTRIES \in { <<CountryList(platform)[k]>> : k \in 1..2 }
    /\ script = "single" => COUNTRIES = << <<"u", "s">> >>
    /\ maxPages \in IF script = "single" THEN {PageLimitSingle} ELSE 1..MaxPages
    /\ shared = FALSE
    /\ Start

\* a fetch whose page counter, token, empty-page counter and reviews are
\* kept from the fetch of the country before
StartCountryKeepsLocals ==
    /\ script = "worldwide"
    /\ pc = "loop"
    /\ i < Len(COUNTRIES)
    /\ totalCountriesProcessed' = totalCountriesProcessed + 1
    /\ pageLog' = <<>>
    /\ stop' = "none"
    /\ delays' = 0
    /\ fetches' = [fetches EXCEPT ![i + 1] = @ + 1]
    /\ pc' = "request"
    /\ UNCHANGED <<zendeskVars, convertVars, platform, dedupVars, normVars, configVars, i, allGlobalReviews,
                   countriesWithReviews, countryReviews, written, filesWritten, fetchVars,
                   regionDelays, returned, ended, logged, inFlight, requests, writeVars>>

\* scrapeAllReviewsGlobal: the head of the for loop and the call
\* scrapeCountryReviews(country), whose locals start fresh
StartCountry ==
    /\ script = "worldwide"
    /\ pc = "loop"
    /\ i < Len(COUNTRIES)
    /\ totalCountriesProcessed' = totalCountriesProcessed + 1
    /\ allReviews' = <<>>
    /\ pageCount' = 0
    /\ consecutiveEmptyPages' = 0
    /\ nextPaginationToken' = Null
    /\ pageLog' = <<>>
    /\ stop' = "none"
    /\ delays' = 0
    /\ fetches' = [fetches EXCEPT ![i + 1] = @ + 1]
    /\ pc' = "request"
    /\ UNCHANGED <<zendeskVars, convertVars, platform, dedupVars, normVars, configVars, i, allGlobalReviews,
                   countriesWithReviews, countryReviews, written, filesWritten,
                   regionDelays, returned, ended, logged, inFlight, requests, writeVars>>

\* the head of the do loop of a fetch: pageCount++ (batchCount++), and the
\* call of store.reviews(options) or gplay.reviews(options), on which the
\* function waits
SendRequest ==
    /\ pc = "request"
    /\ pageCount' = pageCount + 1
    /\ inFlight' = inFlight + 1
    /\ requests' = Append(requests,
           [country |-> i + 1, page |-> pageCount + 1,
            token |-> IF platform = "google_play" /\ ~Falsy(nextPaginationToken)
                      THEN nextPaginationToken ELSE Undefined])
    /\ pc' = "waiting"
    /\ UNCHANGED <<zendeskVars, convertVars, platform, dedupVars, normVars, configVars, schedVars,
                   allReviews, consecutiveEmptyPages, nextPaginationToken,
                   pageLog, stop, delays, regionDelays, fetches, returned, ended, logged,
                   writeVars>>

\* the fetch of the running country ends: return allReviews
Return(all, how, message) ==
    /\ countryReviews' = all
    /\ returned' = [returned EXCEPT ![i + 1] = all]
    /\ ended' = [ended EXCEPT ![i + 1] = how]
    /\ logged' = [logged EXCEPT ![i + 1] = message]
    /\ pc' = "returned"

\* App Store scrapeCountryReviews: the rest of a pass of the do loop, whose
\* request store.reviews(options) succeeds with n reviews
AppStorePage ==
    /\ script = "worldwide"
    /\ platform = "app_store"
    /\ pc = "waiting"
    /\ inFlight' = inFlight - 1
    /\ \E n \in PageSizes(platform) :
        LET page == pageCount
            recs == WithCountry(PageRecords(platform, shared, COUNTRIES[i + 1], page, n),
                                COUNTRIES[i + 1])
            all == IF n > 0 THEN allReviews \o recs ELSE allReviews
            cep == IF n > 0 THEN 0 ELSE consecutiveEmptyPages + 1
            how == IF n > 0 /\ ShortPage(platform, n) THEN "short"
                   ELSE IF n = 0 /\ EmptyStop(cep) THEN "empty"
                   ELSE IF ~MorePages(page, maxPages) THEN "ceiling"
                   ELSE "none"
        IN  /\ pageLog' = Append(pageLog, [n |-> n, next |-> TRUE, sent |-> Num(page)])
            /\ allReviews' = all
            /\ consecutiveEmptyPages' = cep
            /\ delays' = IF n > 0 THEN delays + 1 ELSE delays
            /\ stop' = how
            /\ IF how = "none"
               THEN /\ pc' = "request"
                    /\ UNCHANGED <<countryReviews, returned, ended, logged>>
               ELSE Return(all, how, ClosingMessage(all))
    /\ UNCHANGED <<zendeskVars, convertVars, platform, dedupVars, normVars, configVars, i, allGlobalReviews,
                   countriesWithReviews, totalCountriesProcessed, written, filesWritten,
                   pageCount, nextPaginationToken, regionDelays, fetches, requests,
                   writeVars>>

\* Google Play scrapeCountryReviews: the rest of a pass of the do loop, whose
\* request gplay.reviews(options) succeeds with n reviews and, when hasNext,
\* a token
GooglePlayPage ==
    /\ script = "worldwide"
    /\ platform = "google_play"
    /\ pc = "waiting"
    /\ inFlight' = inFlight - 1
    /\ \E n \in PageSizes(platform), hasNext \in BOOLEAN :
        LET page == pageCount
            recs == WithCountry(PageRecords(platform, shared, COUNTRIES[i + 1], page, n),
                                COUNTRIES[i + 1])
            all == IF n > 0 THEN allReviews \o recs ELSE allReviews
            token == IF n > 0
                     THEN (IF hasNext THEN TokenAfter(page) ELSE Undefined)
                     ELSE nextPaginationToken
            how == IF n = 0 THEN "empty"
                   ELSE IF ShortPage(platform, n) THEN "short"
                   ELSE IF Falsy(token) THEN "cursor"
                   ELSE IF ~MorePages(page, maxPages) THEN "ceiling"
                   ELSE "none"
        IN  /\ pageLog' = Append(pageLog,
                   [n |-> n, next |-> hasNext,
                    sent |-> IF Falsy(nextPaginationToken) THEN Undefined
                             ELSE nextPaginationToken])
            /\ allReviews' = all
            /\ nextPaginationToken' = token
            /\ delays' = IF n > 0 /\ ~Falsy(token) THEN delays + 1 ELSE delays
            /\ stop' = how
            /\ IF how = "none"
               THEN /\ pc' = "request"
                    /\ UNCHANGED <<countryReviews, returned, ended, logged>>
               ELSE Return(all, how, ClosingMessage(all))
    /\ UNCHANGED <<zendeskVars, convertVars, platform, dedupVars, normVars, configVars, i, allGlobalReviews,
                   countriesWithReviews, totalCountriesProcessed, written, filesWritten,
                   pageCount, consecutiveEmptyPages, regionDelays, fetches, requests,
                   writeVars>>

\* scrapeCountryReviews of either worldwide scraper: the request throws and
\* the catch block returns
RequestFails ==
    /\ script = "worldwide"
    /\ pc = "waiting"
    /\ inFlight' = inFlight - 1
    /\ pageLog' = Append(pageLog,
           [n |-> -1, next |-> FALSE,
            sent |-> IF platform = "app_store" THEN Num(pageCount)
                     ELSE IF Falsy(nextPaginationToken) THEN Undefined
                     ELSE nextPaginationToken])
    /\ stop' = "error"
    /\ Return(Caught(allReviews), "error", CaughtMessage)
    /\ UNCHANGED <<zendeskVars, convertVars, platform, dedupVars, normVars, configVars, i, allGlobalReviews,
                   countriesWithReviews, totalCountriesProcessed, written, filesWritten,
                   allReviews, pageCount, consecutiveEmptyPages, nextPaginationToken, delays,
                   regionDelays, fetches, requests, writeVars>>

\* scrapeAllReviewsGlobal: the rest of the loop body after the await, and i++
CountryDone ==
    /\ script = "worldwide"
    /\ pc = "returned"
    /\ IF Len(countryReviews) > 0
       THEN /\ allGlobalReviews' = allGlobalReviews \o countryReviews
            /\ countriesWithReviews' = countriesWithReviews + 1
       ELSE UNCHANGED <<allGlobalReviews, countriesWithReviews>>
    /\ regionDelays' = IF i < Len(COUNTRIES) - 1 THEN regionDelays + 1 ELSE regionDelays
    /\ i' = AfterCountry(i, Len(countryReviews))
    /\ pc' = "loop"
    /\ UNCHANGED <<zendeskVars, convertVars, platform, dedupVars, normVars, configVars, totalCountriesProcessed,
                   countryReviews, written, filesWritten, fetchVars,
                   pageLog, stop, delays, fetches, returned, ended, logged, inFlight,
                   requests, writeVars>>

\* what the two calls of fs.writeFileSync do
WriteOutcomes == { "both written", "csv fails", "json fails" }

\* fs.writeFileSync(csvFilename, csv); fs.writeFileSync(jsonFilename, ...):
\* an exception of the first call leaves the function before the second
WriteFiles(outcome) ==
    /\ csvWrite' = IF outcome = "csv fails" THEN "failed" ELSE "written"
    /\ jsonWrite' = IF outcome = "csv fails" THEN "none"
                    ELSE IF outcome = "json fails" THEN "failed" ELSE "written"
    /\ filesWritten' = (outcome = "both written")
    /\ pc' = IF outcome = "both written" THEN "done" ELSE "failed"

\* scrapeAllReviewsGlobal after the loop: removeDuplicates, sort, and the
\* two files
Finish ==
    /\ script = "worldwide"
    /\ pc = "loop"
    /\ ~(i < Len(COUNTRIES))
    /\ written' = SortByDate(platform, removeDuplicates(platform, allGlobalReviews))
    /\ \E outcome \in WriteOutcomes : WriteFiles(outcome)
    /\ UNCHANGED <<zendeskVars, convertVars, platform, dedupVars, normVars, configVars, i, allGlobalReviews,
                   countriesWithReviews, totalCountriesProcessed, countryReviews,
                   fetchVars, ghostVars>>

\* App Store scrapeAllReviews: the rest of a pass of the do loop, whose
\* request succeeds with n reviews; the provider has at most MaxPages pages
\* of reviews. A page of fewer than 50 reviews is only logged. When the loop
\* ends the files are written.
SinglePage ==
    /\ script = "single"
    /\ pc = "waiting"
    /\ inFlight' = inFlight - 1
    /\ \E n \in PageSizes(platform) :
        LET page == pageCount
            recs == PageRecords(platform, shared, COUNTRIES[1], page, n)
            all == IF n > 0 THEN allReviews \o recs ELSE allReviews
            how == IF n = 0 THEN "empty"
                   ELSE IF ~MorePages(page, maxPages) THEN "ceiling"
                   ELSE "none"
        IN  /\ n > 0 => page <= MaxPages
            /\ pageLog' = Append(pageLog, [n |-> n, next |-> TRUE, sent |-> Num(page)])
            /\ allReviews' = all
            /\ delays' = IF n > 0 THEN delays + 1 ELSE delays
            /\ stop' = how
            /\ IF how = "none"
               THEN /\ pc' = "request"
                    /\ UNCHANGED <<written, filesWritten, writeVars>>
               ELSE /\ written' = all
                    /\ \E outcome \in WriteOutcomes : WriteFiles(outcome)
    /\ UNCHANGED <<zendeskVars, convertVars, platform, dedupVars, normVars, configVars, i, allGlobalReviews,
                   countriesWithReviews, totalCountriesProcessed, countryReviews,
                   pageCount, consecutiveEmptyPages, nextPaginationToken, regionDelays,
                   fetches, returned, ended, logged, requests>>

\* App Store scrapeAllReviews: the request throws; the catch block of the
\* function logs the error and the function ends
SingleFails ==
    /\ script = "single"
    /\ pc = "waiting"
    /\ inFlight' = inFlight - 1
    /\ pageLog' = Append(pageLog, [n |-> -1, next |-> FALSE, sent |-> Num(pageCount)])
    /\ stop' = "error"
    /\ pc' = "done"
    /\ UNCHANGED <<zendeskVars, convertVars, platform, dedupVars, normVars, configVars, schedVars, allReviews,
                   pageCount, consecutiveEmptyPages, nextPaginationToken, delays,
                   regionDelays, fetches, returned, ended, logged, requests, writeVars>>

Next ==
    \/ StartCountry
    \/ SendRequest
    \/ AppStorePage
    \/ GooglePlayPage
    \/ RequestFails
    \/ CountryDone
    \/ Finish

Spec == Init /\ [][Next]_vars

NextFetch ==
    \/ StartCountry
    \/ SendRequest
    \/ AppStorePage
    \/ GooglePlayPage
    \/ RequestFails
    \/ CountryDone
    \/ Finish
    \/ SinglePage
    \/ SingleFails

SpecFetch == InitFetch /\ [][NextFetch]_vars

\* the caller asks the running script to stop; no statement of
\* scrapeAllReviewsGlobal or of scrapeCountryReviews reads the request
RequestAbort ==
    /\ pc \notin {"idle", "done", "failed"}
    /\ ~abortRequested
    /\ abortRequested' = TRUE
    /\ UNCHANGED <<zendeskVars, convertVars, platform, dedupVars, normVars, script, COUNTRIES,
                   maxPages, shared, pc, schedVars, fetchVars, ghostVars, writeVars>>

NextAbort == Next \/ RequestAbort

SpecAbort == Init /\ [][NextAbort]_vars

(***************************************************************************)
(* Claims about the fetch loops                                            *)
(***************************************************************************)
\* a fetch of scrapeCountryReviews runs or has just returned
InCountryFetch == script = "worldwide" /\ pc \in {"request", "returned"}

\* the reviews of the first upto responses of log, as the fetch of country c
\* keeps them
RECURSIVE LogRecords(_, _, _)
LogRecords(log, upto, c) ==
    IF upto = 0 THEN <<>>
    ELSE LogRecords(log, upto - 1, c) \o
         ( IF log[upto].n > 0
           THEN [k \in 1..log[upto].n |->
                    [PageRecords(platform, shared, c, upto, log[upto].n)[k]
                        EXCEPT !.country = IF script = "worldwide" THEN Str(c) ELSE @]]
           ELSE <<>> )

\* every response so far was a page of one size, not below the threshold,
\* and (Google Play) carried a token
SteadySource ==
    \A k \in DOMAIN pageLog :
        /\ pageLog[k].n >= MinPageSize(platform)
        /\ pageLog[k].n = pageLog[1].n
        /\ platform = "google_play" => pageLog[k].next

\* C5: against a source that answers every request with a full page of
\* constant size (and a next token), scrapeCountryReviews(country, maxPages)
\* goes on until it has issued exactly maxPages requests, then returns the
\* reviews of all maxPages pages.
C5_FullPagesReachLimit ==
    (InCountryFetch /\ SteadySource) =>
        /\ pageCount = Len(pageLog)
        /\ pc = "request" => pageCount < maxPages
        /\ pc = "returned" =>
               /\ pageCount = maxPages
               /\ countryReviews = LogRecords(pageLog, maxPages, COUNTRIES[i + 1])
               /\ Len(countryReviews) = maxPages * pageLog[1].n

C5_Witness ==
    /\ InCountryFetch
    /\ pc = "returned"
    /\ maxPages = 3
    /\ Len(pageLog) = 3
    /\ SteadySource

\* the number of empty pages at the end of the successful responses
RECURSIVE TrailingEmpty(_)
TrailingEmpty(log) ==
    IF log = <<>> \/ log[Len(log)].n # 0 THEN 0
    ELSE 1 + TrailingEmpty(SubSeq(log, 1, Len(log) - 1))

\* C6: in the App Store fetch of a country an empty page adds one to
\* consecutiveEmptyPages and a page with reviews sets it to 0; an empty page
\* ends the fetch by the empty-page rule exactly when the counter has reached
\* 2, so one empty page followed by a page with reviews does not end it; and
\* when the second and third pages are empty the fetch ends after the third
\* request and returns the reviews of the first page.
C6_TwoEmptyPagesStop ==
    (InCountryFetch /\ platform = "app_store") =>
        LET answered == SelectSeq(pageLog, LAMBDA e : e.n >= 0)
            last == pageLog[Len(pageLog)]
        IN  /\ consecutiveEmptyPages = TrailingEmpty(answered)
            /\ consecutiveEmptyPages <= 2
            /\ stop = "empty" <=>
                   (pageLog # <<>> /\ last.n = 0 /\ consecutiveEmptyPages = 2)
            /\ (pageLog # <<>> /\ last.n = 0 /\ consecutiveEmptyPages < 2
                    /\ pageCount < maxPages) => pc = "request"
            /\ (Len(pageLog) >= 3 /\ pageLog[2].n = 0 /\ pageLog[3].n = 0) =>
                   /\ Len(pageLog) = 3
                   /\ pc = "returned"
                   /\ countryReviews = LogRecords(pageLog, 1, COUNTRIES[i + 1])

C6_Witness ==
    /\ InCountryFetch
    /\ platform = "app_store"
    /\ pc = "returned"
    /\ Len(pageLog) = 3
    /\ pageLog[1].n = MinPageSizeAppStore
    /\ pageLog[2].n = 0
    /\ pageLog[3].n = 0
    /\ stop = "empty"
    /\ Len(countryReviews) = MinPageSizeAppStore

\* a page with reviews, but fewer than the threshold
IsShort(e) == 0 < e.n /\ e.n < MinPageSize(platform)

\* the page at position k of the log is kept in full and is the last request
ShortPageEnds(k) ==
    /\ k = Len(pageLog)
    /\ pc \notin {"request", "waiting"}
    /\ allReviews = LogRecords(pageLog, k, COUNTRIES[IF script = "single" THEN 1 ELSE i + 1])

\* C7 as stated: in every fetcher, scrapeAllReviews included, a page of fewer
\* than min_page_size (5 App Store, 10 Google Play) reviews is kept in full
\* and is the last page requested.
C7_ShortPageIsLastEverywhere ==
    (InCountryFetch \/ (script = "single" /\ pc # "waiting")) =>
        \A k \in DOMAIN pageLog : IsShort(pageLog[k]) => ShortPageEnds(k)

\* C7 amended: in scrapeCountryReviews of the two worldwide scrapers a page
\* of fewer than min_page_size reviews is kept in full and is the last page
\* requested; scrapeAllReviews of the App Store scraper keeps such a page too
\* but goes on requesting: only an empty page, a failure or its limit of 200
\* pages ends it.
C7_ShortPageIsLastWorldwide ==
    /\ InCountryFetch =>
           \A k \in DOMAIN pageLog : IsShort(pageLog[k]) => ShortPageEnds(k)
    /\ (script = "single" /\ pc # "failed") =>
           /\ allReviews = LogRecords(pageLog, Len(pageLog), COUNTRIES[1])
           /\ pc \in {"request", "waiting"} <=>
                  \A k \in DOMAIN pageLog : pageLog[k].n > 0 /\ k < PageLimitSingle

C7_Witness ==
    /\ InCountryFetch
    /\ pc = "returned"
    /\ stop = "short"
    /\ Len(pageLog) = 2
    /\ maxPages = 3
    /\ Len(allReviews) = 2 * MinPageSize(platform) - 1

\* C8: when the request for page k fails, scrapeCountryReviews issues no
\* further request, returns to its caller, and returns the reviews of pages
\* 1..k-1.
C8_FailureReturnsEarlierPages ==
    InCountryFetch =>
        \A k \in DOMAIN pageLog :
            pageLog[k].n = -1 =>
                /\ k = Len(pageLog)
                /\ pageCount = k
                /\ pc = "returned"
                /\ countryReviews = LogRecords(pageLog, k - 1, COUNTRIES[i + 1])
                /\ returned[i + 1] = countryReviews

C8_Witness ==
    /\ InCountryFetch
    /\ pc = "returned"
    /\ Len(pageLog) = 3
    /\ pageLog[3].n = -1
    /\ Len(countryReviews) = 2 * MinPageSize(platform)

RECURSIVE SumLen(_, _)
SumLen(f, upto) == IF upto = 0 THEN 0 ELSE SumLen(f, upto - 1) + Len(f[upto])

\* C9: scrapeAllReviewsGlobal fetches every country of the list exactly once
\* whatever the earlier countries gave: a country with no reviews or a failed
\* first request adds nothing and the next country is still fetched; the raw
\* total is the sum of the per-country counts; and when all raw records
\* differ, removeDuplicates leaves their number unchanged.
C9_EveryCountryFetchedOnce ==
    /\ \A r \in DOMAIN fetches :
           fetches[r] = IF r <= i \/ (r = i + 1 /\ pc \in {"request", "waiting", "returned"})
                        THEN 1 ELSE 0
    /\ pc \in {"loop", "done"} =>
           /\ Len(allGlobalReviews) = SumLen(returned, i)
           /\ totalCountriesProcessed = i
    /\ pc = "done" =>
           /\ i = Len(COUNTRIES)
           /\ \A r \in DOMAIN fetches : fetches[r] = 1 /\ ended[r] # "none"
           /\ (\A a, b \in 1..Len(allGlobalReviews) :
                   a # b => Key(platform, allGlobalReviews[a]) # Key(platform, allGlobalReviews[b]))
                  => Len(written) = Len(allGlobalReviews)

\* the first country gave nothing after a failed first request, the second
\* was still fetched and gave two pages, and all its records are written
C9_Witness ==
    /\ pc = "done"
    /\ ended[1] = "error"
    /\ returned[1] = <<>>
    /\ fetches[2] = 1
    /\ Len(returned[2]) = 2 * MinPageSize(platform) - 1
    /\ Len(allGlobalReviews) = Len(returned[2])
    /\ Len(written) = Len(allGlobalReviews)

\* C10: the value a fetch returns to scrapeAllReviewsGlobal tells a country
\* that had no reviews and no error from a country whose request failed.
C10_ZeroFoundDiffersFromErrored ==
    \A r1, r2 \in DOMAIN returned :
        ( /\ ended[r1] = "error"
          /\ ended[r2] \notin {"none", "error"}
          /\ returned[r2] = <<>> )
            => returned[r1] # returned[r2]

\* C15: when the write of the CSV file fails, the write of the JSON file is
\* still attempted.
C15_JsonAttemptedAfterCsvFailure == csvWrite = "failed" => jsonWrite # "none"

\* the values returned by the fetches of the first upto countries, joined
RECURSIVE ConcatReturned(_)
ConcatReturned(upto) ==
    IF upto = 0 THEN <<>> ELSE ConcatReturned(upto - 1) \o returned[upto]

\* the requests of requests[1..upto] that went to country r
RequestsTo(r, upto) == Cardinality({ a \in 1..upto : requests[a].country = r })

\* C19: the countries are processed one after another in the order of
\* COUNTRIES and the pages of a country in increasing order: a request for a
\* country is sent only when the fetches of all countries before it have
\* returned, every request of a country carries the page number (Google
\* Play: the token of the response) that follows its previous request, at
\* most one request is unanswered at any time, and allGlobalReviews is the
\* concatenation of the values the fetches returned, in the order of
\* COUNTRIES.
C19_SequentialInListOrder ==
    /\ inFlight = (IF pc = "waiting" THEN 1 ELSE 0)
    /\ \A b \in 1..Len(requests) :
           /\ \A a \in 1..(b - 1) : requests[a].country <= requests[b].country
           /\ \A q \in 1..(requests[b].country - 1) : ended[q] # "none"
           /\ requests[b].page = RequestsTo(requests[b].country, b)
           /\ requests[b].token =
                  IF platform = "google_play" /\ requests[b].page > 1
                  THEN TokenAfter(requests[b].page - 1) ELSE Undefined
    /\ allGlobalReviews = ConcatReturned(i)
    /\ pc \in {"done", "failed"} => i = Len(COUNTRIES)

\* both countries gave reviews, the first one over two requests
C19_Witness ==
    /\ pc = "done"
    /\ Len(requests) = 3
    /\ requests[2].country = 1
    /\ requests[3].country = 2
    /\ returned[1] # <<>>
    /\ returned[2] # <<>>
    /\ allGlobalReviews = returned[1] \o returned[2]

\* C20: a fetch takes its inter-page delay exactly when it is not done: one
\* delay between any two consecutive requests of a country, none after the
\* page that ends the fetch.
C20_DelayExactlyBetweenRequests ==
    InCountryFetch =>
        delays = (IF pc = "returned" THEN Len(pageLog) - 1 ELSE Len(pageLog))

\* C21: once the caller has asked for the abort, the scheduler starts the
\* fetch of no further country and the running fetch sends no further
\* request (the request in flight may complete).
C21_NothingStartedAfterAbort ==
    [][abortRequested =>
         /\ Len(requests') = Len(requests)
         /\ \A r \in DOMAIN fetches : fetches'[r] = fetches[r]]_vars

\* C22: when the request for page k > 1 of scrapeAllReviews fails, the
\* reviews of pages 1..k-1 are written to the output files.
C22_SingleKeepsEarlierPages ==
    ( /\ script = "single"
      /\ pc = "done"
      /\ stop = "error"
      /\ Len(pageLog) > 1 )
    => /\ filesWritten
       /\ written = allReviews
       /\ Len(written) > 0

\* the fetch of a country runs: it is about to send a request, waits for a
\* response, or has just returned
FetchRuns == script = "worldwide" /\ pc \in {"request", "waiting", "returned"}

\* C23: the fetch of every country starts fresh whatever the earlier
\* countries did: its first request has page 1 and no token, and before it
\* the page counter and the empty-page counter are 0, the token is null and
\* allReviews is empty; all through the fetch allReviews holds the reviews
\* of the responses of this country alone, tagged with this country, and
\* that is what the fetch returns.
C23_EveryFetchStartsFresh ==
    /\ \A b \in 1..Len(requests) :
           (b = 1 \/ requests[b - 1].country # requests[b].country)
           => requests[b].page = 1 /\ requests[b].token = Undefined
    /\ (FetchRuns /\ pc = "request" /\ pageLog = <<>>)
       => /\ pageCount = 0
          /\ consecutiveEmptyPages = 0
          /\ nextPaginationToken = Null
          /\ allReviews = <<>>
    /\ FetchRuns
       => /\ allReviews = LogRecords(pageLog, Len(pageLog), COUNTRIES[i + 1])
          /\ pageCount = Len(pageLog) + inFlight
          /\ pageCount = RequestsTo(i + 1, Len(requests))
    /\ (FetchRuns /\ pc = "returned") => returned[i + 1] = allReviews

\* the second country's first request is out after a first country whose
\* fetch ended on its second page with reviews and, on Google Play, a token
C23_Witness ==
    /\ FetchRuns
    /\ pc = "waiting"
    /\ i = 1
    /\ Len(requests) = 3
    /\ requests[3] = [country |-> 2, page |-> 1, token |-> Undefined]
    /\ requests[2].page = 2
    /\ Len(returned[1]) > MinPageSize(platform)
    /\ ended[1] \in {"short", "ceiling"}
    /\ allReviews = <<>>

\* the number of places a record has in a sequence of records
Places(rs, rec) == Cardinality({ k \in 1..Len(rs) : rs[k] = rec })

\* C29: what scrapeAllReviewsGlobal writes is the output of removeDuplicates
\* in another order, no record added and none dropped: by date, the most
\* recent first, and not in the order of first occurrence that
\* removeDuplicates produces.
C29_WrittenIsDedupSortedByDate ==
    (script = "worldwide" /\ pc \in {"done", "failed"}) =>
        LET uniqueReviews == removeDuplicates(platform, allGlobalReviews)
        IN  /\ Len(written) = Len(uniqueReviews)
            /\ \A k \in 1..Len(uniqueReviews) :
                   Places(written, uniqueReviews[k]) = Places(uniqueReviews, uniqueReviews[k])
            /\ \A k \in 1..(Len(written) - 1) :
                   SortDate(platform, written[k]) >= SortDate(platform, written[k + 1])
            /\ (\E k \in 1..(Len(uniqueReviews) - 1) :
                    SortDate(platform, uniqueReviews[k]) < SortDate(platform, uniqueReviews[k + 1]))
               => written # uniqueReviews

\* both files are written, and the first record written is a record of the
\* second page, which removeDuplicates returns after those of the first
C29_Witness ==
    /\ script = "worldwide"
    /\ pc = "done"
    /\ filesWritten
    /\ Len(written) > 1
    /\ written # removeDuplicates(platform, allGlobalReviews)
    /\ SortDate(platform, written[1]) > SortDate(platform, removeDuplicates(platform, allGlobalReviews)[1])

(***************************************************************************)
(* convertTicketsToReviews, ticketToRating and extractTicketText of        *)
(* zendesk_tickets_scraper.js                                              *)
(***************************************************************************)
\* the number of tickets and of satisfaction ratings given to
\* convertTicketsToReviews
MaxTickets == 2
MaxRatings == 2

Good == Str(<< "g", "o", "o", "d" >>)
Bad == Str(<< "b", "a", "d" >>)
Offered == Str(<< "o", "f", "f", "e", "r", "e", "d" >>)
Unoffered == Str(<< "u", "n", "o", "f", "f", "e", "r", "e", "d" >>)
Received == Str(<< "r", "e", "c", "e", "i", "v", "e", "d" >>)
Solved == Str(<< "s", "o", "l", "v", "e", "d" >>)
Closed == Str(<< "c", "l", "o", "s", "e", "d" >>)
Open == Str(<< "o", "p", "e", "n" >>)
Pending == Str(<< "p", "e", "n", "d", "i", "n", "g" >>)
Hold == Str(<< "h", "o", "l", "d" >>)
Urgent == Str(<< "u", "r", "g", "e", "n", "t" >>)
High == Str(<< "h", "i", "g", "h" >>)
Low == Str(<< "l", "o", "w" >>)
Normal == Str(<< "n", "o", "r", "m", "a", "l" >>)

\* A satisfaction rating object of the API, and the absence of one
Satisfaction(ticketId, score) == [t |-> "object", ticket_id |-> ticketId, score |-> score]
NoSatisfaction == [t |-> "undefined", ticket_id |-> Undefined, score |-> Undefined]

\* The value of ticket.tags: an array of strings, a missing field, or a
\* value of another type
TagArray(items) == [t |-> "array", items |-> items, s |-> <<>>]
NoTags == [t |-> "undefined", items |-> <<>>, s |-> <<>>]
TagString(s) == [t |-> "string", items |-> <<>>, s |-> s]

\* ticket.tags is truthy
HasTags(tags) == tags.t = "array" \/ (tags.t = "string" /\ tags.s # <<>>)

\* ticket.tags.length
TagsLength(tags) == IF tags.t = "array" THEN Len(tags.items) ELSE Len(tags.s)

\* a buggy status test: a closed ticket is not counted as resolved
StatusAdjustSolvedOnly(status) ==
    IF status = Solved THEN 1
    ELSE IF status = Open \/ status = Pending THEN -1
    ELSE 0

\* ticket.status === 'solved' || ... : +1, -1 or 0
StatusAdjust(status) ==
    IF status = Solved \/ status = Closed THEN 1
    ELSE IF status = Open \/ status = Pending THEN -1
    ELSE 0

\* a rating rule that takes two points off for an urgent ticket
PriorityAdjustUrgentTwice(priority) ==
    IF priority = Urgent THEN -2
    ELSE IF priority = High THEN -1
    ELSE IF priority = Low THEN 1
    ELSE 0

\* ticket.priority === 'urgent' || ... : -1, +1 or 0
PriorityAdjust(priority) ==
    IF priority = Urgent \/ priority = High THEN -1
    ELSE IF priority = Low THEN 1
    ELSE 0

Min(a, b) == IF a < b THEN a ELSE b
Max(a, b) == IF a > b THEN a ELSE b

\* Math.max(1, Math.min(5, rating))
Clamp(rating) == Max(1, Min(5, rating))

\* ticketToRating(ticket)
ticketToRating(ticket) ==
    LET sat == ticket.satisfaction_rating
        derived == Num(Clamp(3 + StatusAdjust(ticket.status) + PriorityAdjust(ticket.priority)))
    IN  IF sat.t = "object" /\ ~Falsy(sat.score)
        THEN IF sat.score \in {Offered, Unoffered, Received} THEN Null
             ELSE IF sat.score = Good THEN Num(5)
             ELSE IF sat.score = Bad THEN Num(1)
             ELSE derived
        ELSE derived

\* Array.prototype.join(', ')
RECURSIVE JoinTags(_)
JoinTags(items) ==
    IF items = <<>> THEN <<>>
    ELSE IF Len(items) = 1 THEN items[1]
    ELSE items[1] \o << ",", " " >> \o JoinTags(Tail(items))

NoDescriptionAvailable ==
    << "N", "o", " ", "d", "e", "s", "c", "r", "i", "p", "t", "i", "o", "n", " ",
       "a", "v", "a", "i", "l", "a", "b", "l", "e" >>

TagsPrefix == << " ", "[", "T", "a", "g", "s", ":", " " >>

\* a buggy tag suffix: only the first tag is listed
TagSuffixFirstOnly(tags) ==
    IF HasTags(tags) /\ TagsLength(tags) > 0
    THEN TagsPrefix \o tags.items[1] \o <<"]">>
    ELSE <<>>

\* if (ticket.tags && ticket.tags.length > 0) text += ` [Tags: ${...}]`
TagSuffix(tags) ==
    IF HasTags(tags) /\ TagsLength(tags) > 0
    THEN TagsPrefix \o JoinTags(tags.items) \o <<"]">>
    ELSE <<>>

\* extractTicketText throws: ticket.tags.join is not a function
TextThrows(ticket) ==
    HasTags(ticket.tags) /\ TagsLength(ticket.tags) > 0 /\ ticket.tags.t # "array"

\* extractTicketText(ticket), for a ticket on which it does not throw
extractTicketText(ticket) ==
    LET subject == IF Falsy(ticket.subject) THEN <<>> ELSE StringOf(ticket.subject)
        withDescription ==
            IF ~Falsy(ticket.description) /\ ticket.description # ticket.subject
            THEN (IF subject # <<>>
                  THEN subject \o << ".", " " >> \o StringOf(ticket.description)
                  ELSE StringOf(ticket.description))
            ELSE subject
        text == withDescription \o TagSuffix(ticket.tags)
    IN  IF text = <<>> THEN Str(NoDescriptionAvailable) ELSE Str(text)

IsDigit(c) == c \in { "0", "1", "2", "3", "4", "5", "6", "7", "8", "9" }

\* the position of the first 'T' of s, Len(s) + 1 when there is none
RECURSIVE TPos(_)
TPos(s) == IF s = <<>> \/ Head(s) = "T" THEN 1 ELSE 1 + TPos(Tail(s))

\* String.prototype.split('T')[0]
BeforeT(s) == SubSeq(s, 1, TPos(s) - 1)

\* the part of a timestamp after its 'T'
AfterT(s) == SubSeq(s, TPos(s) + 1, Len(s))

\* new Date(v) is a valid date. The timestamps of the model are a day
\* number, or a day number and a time of day joined by 'T'; a number counts
\* from the epoch.
ValidDate(v) ==
    \/ v.t = "number"
    \/ /\ v.t = "string"
       /\ BeforeT(v.s) # <<>>
       /\ \A k \in 1..Len(BeforeT(v.s)) : IsDigit(BeforeT(v.s)[k])
       /\ TPos(v.s) <= Len(v.s) =>
              /\ AfterT(v.s) # <<>>
              /\ \A k \in 1..Len(AfterT(v.s)) : IsDigit(AfterT(v.s)[k])

\* new Date(v).toISOString() for a valid date
ToISOString(v) ==
    IF v.t = "number" THEN Digits(v.n) \o << "T", "0" >>
    ELSE Digits(DateNumber(BeforeT(v.s))) \o <<"T">>
            \o (IF TPos(v.s) <= Len(v.s) THEN Digits(DateNumber(AfterT(v.s))) ELSE <<"0">>)

\* new Date(ticket.created_at).toISOString() throws RangeError
DateThrows(ticket) == ~Falsy(ticket.created_at) /\ ~ValidDate(ticket.created_at)

\* let date = ''; if (ticket.created_at) date = new Date(...).toISOString().split('T')[0]
TicketDate(ticket) ==
    IF Falsy(ticket.created_at) THEN EmptyString
    ELSE Str(BeforeT(ToISOString(ticket.created_at)))

\* a map in which the first rating stored under a key stays
RECURSIVE LookupFirst(_, _)
LookupFirst(ratings, id) ==
    IF ratings = <<>> THEN NoSatisfaction
    ELSE IF ~Falsy(ratings[1].ticket_id) /\ StringOf(ratings[1].ticket_id) = StringOf(id)
         THEN ratings[1]
         ELSE LookupFirst(Tail(ratings), id)

\* ratingsMap[ticket.id] after satisfactionRatings.forEach(rating =>
\* { if (rating.ticket_id) ratingsMap[rating.ticket_id] = rating }): the last
\* rating stored under the key; property keys are strings
RECURSIVE Lookup(_, _)
Lookup(ratings, id) ==
    IF ratings = <<>> THEN NoSatisfaction
    ELSE LET last == ratings[Len(ratings)]
         IN  IF ~Falsy(last.ticket_id) /\ StringOf(last.ticket_id) = StringOf(id)
             THEN last
             ELSE Lookup(SubSeq(ratings, 1, Len(ratings) - 1), id)

\* `zendesk_${ticket.id}_${Math.random().toString(36).substr(2, 9)}`
ZendeskId(id, rnd) ==
    Str(<< "z", "e", "n", "d", "e", "s", "k", "_" >> \o StringOf(id) \o <<"_">> \o rnd)

\* ticket.requester_id ? `User ${ticket.requester_id}` : 'Anonymous'
ZendeskAuthor(ticket) ==
    IF Falsy(ticket.requester_id) THEN Anonymous
    ELSE Str(<< "U", "s", "e", "r", " " >> \o StringOf(ticket.requester_id))

\* a conversion that leaves the ticket's own satisfaction_rating in place
\* when no rating is joined
ZendeskRatingKeepsEmbedded(ticket, satisfaction) ==
    LET rating == ticketToRating(IF satisfaction.t = "object"
                                 THEN [ticket EXCEPT !.satisfaction_rating = satisfaction]
                                 ELSE ticket)
    IN  IF satisfaction.t = "object" /\ satisfaction.score = Good THEN Num(5)
        ELSE IF satisfaction.t = "object" /\ satisfaction.score = Bad THEN Num(1)
        ELSE rating

\* let rating = ticketToRating({...ticket, satisfaction_rating: satisfaction});
\* if (satisfaction) { good -> 5, bad -> 1 }
ZendeskRating(ticket, satisfaction) ==
    LET rating == ticketToRating([ticket EXCEPT !.satisfaction_rating = satisfaction])
    IN  IF satisfaction.t = "object" /\ satisfaction.score = Good THEN Num(5)
        ELSE IF satisfaction.t = "object" /\ satisfaction.score = Bad THEN Num(1)
        ELSE rating

\* the callback of tickets.map, for a ticket on which it does not throw
ConvertTicket(ticket, ratings, rnd) ==
    LET satisfaction == Lookup(ratings, ticket.id)
    IN  [id |-> ZendeskId(ticket.id, rnd),
         author |-> ZendeskAuthor(ticket),
         rating |-> ZendeskRating(ticket, satisfaction),
         review |-> extractTicketText(ticket),
         title |-> Or(ticket.subject, EmptyString),
         date |-> TicketDate(ticket),
         helpful |-> Num(0),
         platform |-> Str(<< "z", "e", "n", "d", "e", "s", "k" >>),
         ticket_id |-> ticket.id,
         status |-> ticket.status,
         priority |-> ticket.priority,
         satisfaction_score |-> IF satisfaction.t = "object" THEN satisfaction.score ELSE Null,
         tags |-> IF HasTags(ticket.tags) THEN ticket.tags ELSE TagArray(<<>>)]

\* the callback of tickets.map throws on this ticket
TicketThrows(ticket) == DateThrows(ticket) \/ TextThrows(ticket)

\* convertTicketsToReviews(tickets, satisfactionRatings): the reviews, or
\* the exception of the first ticket whose conversion throws
convertTicketsToReviews(ts, ratings, rnds) ==
    IF \E k \in 1..Len(ts) : TicketThrows(ts[k])
    THEN [threw |-> TRUE, reviews |-> <<>>]
    ELSE [threw |-> FALSE,
          reviews |-> [k \in 1..Len(ts) |-> ConvertTicket(ts[k], ratings, rnds[k])]]

\* a ticket as the API delivers it
Ticket(id, subject, description, tags, status, priority, created) ==
    [id |-> id, requester_id |-> Num(7), subject |-> subject, description |-> description,
     tags |-> tags, status |-> status, priority |-> priority, created_at |-> created,
     satisfaction_rating |-> NoSatisfaction]

Timestamp == Str(<< "3", "T", "9" >>)
SubjectA == Str(<<"a">>)
TextB == Str(<<"b">>)
TagsXY == TagArray(<< <<"x">>, <<"y">> >>)

\* tickets of every status and priority the rating looks at
RatingTickets ==
    { Ticket(Num(1), SubjectA, TextB, NoTags, st, pr, Timestamp) :
        st \in { Solved, Closed, Open, Pending, Hold, Undefined },
        pr \in { Urgent, High, Low, Normal, Undefined } }

\* the scores of a satisfaction rating
SatisfactionScores == { Good, Bad, Offered, Unoffered, Received, Undefined }

\* tickets and ratings to be joined on the ticket id; one ticket carries a
\* satisfaction_rating of its own, one has the id 0, which is the ticket_id
\* of a rating that the map skips
JoinTickets ==
    { Ticket(Num(1), SubjectA, TextB, NoTags, Solved, Low, Timestamp),
      Ticket(Num(0), SubjectA, TextB, NoTags, Open, Urgent, Timestamp),
      [Ticket(Num(2), SubjectA, TextB, NoTags, Hold, Normal, Timestamp)
          EXCEPT !.satisfaction_rating = Satisfaction(Num(2), Bad)] }

JoinRatings ==
    { Satisfaction(id, score) : id \in { Num(1), Num(2), Num(0) }, score \in { Good, Bad } }

\* tickets with and without subject, description and tags
TextTickets ==
    { [Ticket(Num(1), su, de, tg, Solved, Normal, Timestamp) EXCEPT !.requester_id = rq] :
        su \in { Undefined, SubjectA }, de \in { Undefined, SubjectA, TextB },
        tg \in { NoTags, TagArray(<<>>), TagsXY }, rq \in { Num(7) } }

\* tickets of an unexpected shape next to a regular one
MalformedTickets ==
    { Ticket(Num(1), SubjectA, TextB, TagsXY, Solved, Low, Timestamp),
      Ticket(Num(2), SubjectA, TextB, NoTags, Solved, Low, Str(<<"x">>)),
      Ticket(Num(2), SubjectA, TextB, TagString(<<"x">>), Solved, Low, Timestamp),
      Ticket(Num(2), Num(4), Undefined, NoTags, Num(4), Num(4), Undefined),
      [Ticket(Num(2), Undefined, Undefined, NoTags, Undefined, Undefined, Undefined)
          EXCEPT !.requester_id = Undefined] }

\* the arguments of a call of convertTicketsToReviews
InitConvert ==
    /\ platform = "zendesk"
    /\ DedupIdle
    /\ NormIdle
    /\ RunIdle
    /\ ZendeskIdle
    /\ zstage = "input"
    /\ ticketReviews = <<>>
    /\ \/ /\ tickets \in [1..1 -> RatingTickets]
          /\ satisfactionRatings \in
                 SeqUpTo({ Satisfaction(Num(1), score) : score \in SatisfactionScores }, 1)
       \/ /\ tickets \in SeqUpTo(JoinTickets, MaxTickets)
          /\ satisfactionRatings \in SeqUpTo(JoinRatings, MaxRatings)
       \/ /\ tickets \in SeqUpTo(TextTickets, MaxTickets)
          /\ satisfactionRatings = <<>>
       \/ /\ tickets \in SeqUpTo(MalformedTickets, MaxTickets)
          /\ satisfactionRatings = <<>>

\* const reviews = convertTicketsToReviews(tickets, satisfactionRatings)
Convert ==
    /\ zstage = "input"
    /\ \E rnds \in [1..Len(tickets) -> RandomSuffixes] :
        LET result == convertTicketsToReviews(tickets, satisfactionRatings, rnds)
        IN  /\ zstage' = IF result.threw THEN "threw" ELSE "converted"
            /\ ticketReviews' = result.reviews
    /\ UNCHANGED <<zendeskVars, platform, dedupVars, normVars, runVars, tickets,
                   satisfactionRatings>>

NextConvert == Convert

SpecConvert == InitConvert /\ [][NextConvert]_vars

(***************************************************************************)
(* Claims about the conversion of tickets                                  *)
(***************************************************************************)
\* clamp(3 + s + p, 1, 5) with s and p as the rating rule states them
DerivedRating(ticket) ==
    LET s == IF ticket.status \in {Solved, Closed} THEN 1
             ELSE IF ticket.status \in {Open, Pending} THEN -1 ELSE 0
        p == IF ticket.priority \in {Urgent, High} THEN -1
             ELSE IF ticket.priority = Low THEN 1 ELSE 0
        sum == 3 + s + p
    IN  Num(IF sum < 1 THEN 1 ELSE IF sum > 5 THEN 5 ELSE sum)

\* the satisfaction rating joined to ticket number k
Joined(k) == Lookup(satisfactionRatings, tickets[k].id)

\* C11 as stated: the rating of a ticket is 5 when the joined satisfaction
\* score is 'good', 1 when it is 'bad', and clamp(3 + s + p, 1, 5) in every
\* other case.
C11_RatingGoodBadOrDerived ==
    zstage = "converted" =>
        \A k \in 1..Len(tickets) :
            ticketReviews[k].rating =
                IF Joined(k).score = Good THEN Num(5)
                ELSE IF Joined(k).score = Bad THEN Num(1)
                ELSE DerivedRating(tickets[k])

\* C11 amended: the rating is 5 for 'good', 1 for 'bad', null when the
\* joined score is 'offered', 'unoffered' or 'received', and
\* clamp(3 + s + p, 1, 5) in every other case (no joined record, or a record
\* with another or no score).
C11_RatingGoodBadNullOrDerived ==
    zstage = "converted" =>
        \A k \in 1..Len(tickets) :
            ticketReviews[k].rating =
                IF Joined(k).score = Good THEN Num(5)
                ELSE IF Joined(k).score = Bad THEN Num(1)
                ELSE IF Joined(k).score \in {Offered, Unoffered, Received} THEN Null
                ELSE DerivedRating(tickets[k])

\* a closed ticket of low priority whose satisfaction rating was only
\* offered gets no rating
C11_Witness ==
    /\ zstage = "converted"
    /\ Len(tickets) = 1
    /\ tickets[1].status = Closed
    /\ tickets[1].priority = Low
    /\ satisfactionRatings = << Satisfaction(Num(1), Offered) >>
    /\ ticketReviews[1].rating = Null

\* C12: the conversion of the raw records completes for every record, also
\* for one with missing fields, with a field of an unexpected type or with a
\* created_at that is not a date: it never throws.
C12_ConversionNeverThrows == zstage # "threw"

\* the tags of a ticket, each followed by the next after ', '
RECURSIVE Listed(_, _)
Listed(items, from) ==
    IF from > Len(items) THEN <<>>
    ELSE items[from] \o (IF from < Len(items) THEN << ",", " " >> ELSE <<>>)
            \o Listed(items, from + 1)

\* C14: extractTicketText gives the subject, '. ' and the description when
\* both exist and differ, the one there is when they are equal or one is
\* missing, and for a ticket with a non-empty tag list the text ends with
\* ' [Tags: ...]' listing every tag in order.
C14_TextKeepsSubjectDescriptionTags ==
    zstage = "converted" =>
        \A k \in 1..Len(tickets) :
            LET su == tickets[k].subject
                de == tickets[k].description
                tg == tickets[k].tags
                has(v) == v.t = "string" /\ v.s # <<>>
                body == IF has(su) /\ has(de) /\ su # de
                        THEN su.s \o << ".", " " >> \o de.s
                        ELSE IF has(su) THEN su.s
                        ELSE IF has(de) THEN de.s
                        ELSE <<>>
                suffix == IF tg.t = "array" /\ tg.items # <<>>
                          THEN << " ", "[", "T", "a", "g", "s", ":", " " >>
                                   \o Listed(tg.items, 1) \o <<"]">>
                          ELSE <<>>
            IN  (has(su) \/ has(de) \/ suffix # <<>>) =>
                    ticketReviews[k].review = Str(body \o suffix)

\* subject and description differ and two tags are listed
C14_Witness ==
    /\ zstage = "converted"
    /\ Len(tickets) >= 1
    /\ tickets[1].subject = SubjectA
    /\ tickets[1].description = TextB
    /\ tickets[1].tags = TagsXY
    /\ ticketReviews[1].review =
           Str(<< "a", ".", " ", "b", " ", "[", "T", "a", "g", "s", ":", " ",
                  "x", ",", " ", "y", "]" >>)

\* the positions of the ratings that the map stores under the id of ticket
\* number k
StoredFor(k) ==
    { m \in 1..Len(satisfactionRatings) :
        /\ ~Falsy(satisfactionRatings[m].ticket_id)
        /\ StringOf(satisfactionRatings[m].ticket_id) = StringOf(tickets[k].id) }

\* C27: every ticket gives one review, in the order of the tickets; the
\* rating joined to a ticket is the last of the fetched ratings that carry
\* its id, and ratings without a ticket_id are joined to no ticket.
C27_LastRatingJoined ==
    zstage = "converted" =>
        /\ Len(ticketReviews) = Len(tickets)
        /\ \A k \in 1..Len(tickets) :
               /\ ticketReviews[k].ticket_id = tickets[k].id
               /\ ticketReviews[k].satisfaction_score =
                      IF StoredFor(k) = {} THEN Null
                      ELSE satisfactionRatings[
                               CHOOSE m \in StoredFor(k) : \A n \in StoredFor(k) : n <= m].score
               /\ Falsy(tickets[k].id) => ticketReviews[k].satisfaction_score = Null

\* two ratings of ticket 1, bad then good, and a rating with ticket_id 0
\* before a ticket with id 0
C27_Witness ==
    /\ zstage = "converted"
    /\ Len(tickets) = 2
    /\ tickets[1].id = Num(1)
    /\ tickets[2].id = Num(0)
    /\ satisfactionRatings = << Satisfaction(Num(1), Bad), Satisfaction(Num(1), Good) >>
    /\ ticketReviews[1].satisfaction_score = Good
    /\ ticketReviews[1].rating = Num(5)
    /\ ticketReviews[2].satisfaction_score = Null

\* C28: the rating and the satisfaction_score of a review come from the
\* joined rating alone: the satisfaction_rating a ticket carries itself is
\* replaced by the joined one (or by none) before ticketToRating, so with
\* no joined rating the rating is the one derived from status and priority
\* and the satisfaction_score is null.
C28_EmbeddedRatingOverridden ==
    zstage = "converted" =>
        \A k \in 1..Len(tickets) :
            /\ StoredFor(k) = {}
               => /\ ticketReviews[k].rating = DerivedRating(tickets[k])
                  /\ ticketReviews[k].satisfaction_score = Null
            /\ \A score \in SatisfactionScores :
                   LET other == [tickets[k] EXCEPT
                                    !.satisfaction_rating = Satisfaction(tickets[k].id, score)]
                   IN  /\ ZendeskRating(other, Joined(k)) = ticketReviews[k].rating
                       /\ ticketReviews[k].satisfaction_score =
                              IF Joined(k).t = "object" THEN Joined(k).score ELSE Null

\* a ticket on hold of normal priority that carries a 'bad' rating of its
\* own and has no joined rating gets 3
C28_Witness ==
    /\ zstage = "converted"
    /\ Len(tickets) = 1
    /\ tickets[1].satisfaction_rating = Satisfaction(Num(2), Bad)
    /\ satisfactionRatings = << Satisfaction(Num(1), Good) >>
    /\ ticketReviews[1].rating = Num(3)
    /\ ticketReviews[1].satisfaction_score = Null

\* let rating = 3 with the two adjustments of the rating rule, before
\* Math.max(1, Math.min(5, rating))
UnclampedRating(ticket) ==
    3 + (IF ticket.status \in {Solved, Closed} THEN 1
         ELSE IF ticket.status \in {Open, Pending} THEN -1 ELSE 0)
      + (IF ticket.priority \in {Urgent, High} THEN -1
         ELSE IF ticket.priority = Low THEN 1 ELSE 0)

\* C30: when the rating of a ticket is derived from status and priority,
\* 3 + status adjustment + priority adjustment is between 1 and 5, so the
\* rating is that sum and the clamp changes nothing.
C30_ClampNeverChangesDerivedRating ==
    zstage = "converted" =>
        \A k \in 1..Len(tickets) :
            (Joined(k).t # "object" \/ Falsy(Joined(k).score)) =>
                /\ UnclampedRating(tickets[k]) \in 1..5
                /\ ticketReviews[k].rating = Num(UnclampedRating(tickets[k]))
                /\ ticketReviews[k].rating =
                       Num(3 + StatusAdjust(tickets[k].status) + PriorityAdjust(tickets[k].priority))

\* the two ends of the scale: a solved ticket of low priority and an open
\* urgent one, neither with a satisfaction rating
C30_Witness ==
    /\ zstage = "converted"
    /\ satisfactionRatings = <<>>
    /\ Len(tickets) = 2
    /\ tickets[1].status = Solved /\ tickets[1].priority = Low
    /\ tickets[2].status = Open /\ tickets[2].priority = Urgent
    /\ ticketReviews[1].rating = Num(5)
    /\ ticketReviews[2].rating = Num(1)

(***************************************************************************)
(* scrapeZendeskData: the validation of the configuration, the two fetch  *)
(* functions that Promise.all runs concurrently, the conversion and the   *)
(* three writes                                                            *)
(***************************************************************************)
MaxZendeskPages == 2

\* while (nextPage && pageCount < 200) of fetchAllTickets and
\* while (nextPage && pageCount < 50) of fetchSatisfactionRatings
TicketPageLimit == 200
RatingPageLimit == 50

Endpoints == { "tickets", "satisfaction_ratings" }

PageLimit(endpoint) == IF endpoint = "tickets" THEN TicketPageLimit ELSE RatingPageLimit

YourSubdomain == Str(<< "your-subdomain" >>)
YourEmail == Str(<< "your-email@domain.com" >>)
YourApiToken == Str(<< "your-api-token" >>)

\* what process.env can hold for the three settings
Configurations ==
    [subdomain : { Undefined, EmptyString, YourSubdomain, Str(<< "m" >>) },
     email : { Undefined, EmptyString, YourEmail, Str(<< "e" >>) },
     apiToken : { Undefined, EmptyString, YourApiToken, Str(<< "k" >>) }]

\* if (!ZENDESK_CONFIG.subdomain || !ZENDESK_CONFIG.email || !ZENDESK_CONFIG.apiToken)
MissingCredentials(config) ==
    Falsy(config.subdomain) \/ Falsy(config.email) \/ Falsy(config.apiToken)

\* a validation that looks at the subdomain only
PlaceholderSubdomainOnly(config) == config.subdomain = YourSubdomain

\* if (ZENDESK_CONFIG.subdomain === 'your-subdomain' || ...)
PlaceholderCredentials(config) ==
    \/ config.subdomain = YourSubdomain
    \/ config.email = YourEmail
    \/ config.apiToken = YourApiToken

\* response.next_page of the response to request number n: the URL of page
\* n + 1
NextPageUrl(n) == Str(<< "u" >> \o Digits(n + 1))

\* let allTickets = []; let nextPage = null; let pageCount = 0, then the
\* first pass of the do loop up to its await: pageCount++ and the request,
\* which makeZendeskRequest sends to the endpoint, without a page URL
\* (cursor: the URL the last request went to; log: the responses so far)
FirstRequest ==
    [pc |-> "waiting", all |-> <<>>, nextPage |-> Null, pageCount |-> 1, sent |-> 1,
     cursor |-> Null, log |-> <<>>]

\* a loop that goes on without a next page
WhileConditionIgnoresCursor(nextPage, count, limit) == count < limit

\* a loop that stops one page late
WhileConditionOffByOne(nextPage, count, limit) == ~Falsy(nextPage) /\ count <= limit

\* while (nextPage && pageCount < 200)
WhileCondition(nextPage, count, limit) == ~Falsy(nextPage) /\ count < limit

\* const csv = ... reviews.map(r => ...): a cell whose value is truthy and
\* not a string has no replace
ZendeskCsvThrows(rs) ==
    \E k \in 1..Len(rs) :
        \/ NotReplaceable(rs[k].author)
        \/ NotReplaceable(rs[k].review)
        \/ NotReplaceable(rs[k].title)
        \/ NotReplaceable(rs[k].status)
        \/ NotReplaceable(rs[k].priority)
        \/ NotReplaceable(rs[k].satisfaction_score)

ZendeskFiles == << "csv", "json", "dashboard json" >>

\* the tickets and ratings the API serves in the bounded runs
WellFormedTicket == Ticket(Num(1), SubjectA, TextB, TagsXY, Solved, Low, Timestamp)
UndatedTicket == Ticket(Num(2), SubjectA, TextB, NoTags, Solved, Low, Str(<<"x">>))

ZendeskStart ==
    /\ platform = "zendesk"
    /\ DedupIdle
    /\ NormIdle
    /\ RunIdle
    /\ ConvertIdle
    /\ zpc = "start"
    /\ zfetch = <<>>
    /\ zfiles = {}

InitZendesk ==
    /\ ZendeskStart
    /\ ZENDESK_CONFIG \in Configurations
    /\ \E np \in [Endpoints -> 1..MaxZendeskPages] :
           api = [e \in Endpoints |->
                     [pages |-> np[e],
                      bodies |-> IF e = "tickets"
                                 THEN { << WellFormedTicket >>, << UndatedTicket >> }
                                 ELSE { << Satisfaction(Num(1), Good) >> }]]

\* scrapeZendeskData up to its first await: the two checks of the
\* configuration, whose throw goes to the catch at the end of the function,
\* then fetchAllTickets() and fetchSatisfactionRatings() up to their first
\* request
Validate ==
    /\ zpc = "start"
    /\ IF MissingCredentials(ZENDESK_CONFIG) \/ PlaceholderCredentials(ZENDESK_CONFIG)
       THEN /\ zpc' = "config error"
            /\ UNCHANGED zfetch
       ELSE /\ zpc' = "fetching"
            /\ zfetch' = [e \in Endpoints |-> FirstRequest]
    /\ UNCHANGED <<platform, dedupVars, normVars, runVars, convertVars, ZENDESK_CONFIG, api,
                   zfiles>>

\* two fetch functions that append to one array
PageArrivesSharedArray(e) ==
    /\ zpc = "fetching"
    /\ zfetch[e].pc = "waiting"
    /\ \E body \in api[e].bodies, next \in { Null, NextPageUrl(zfetch[e].sent) } :
        /\ next # Null => zfetch[e].sent < api[e].pages
        /\ zfetch' = [f \in Endpoints |->
                         IF f = e
                         THEN [zfetch[f] EXCEPT !.all = @ \o body,
                                                !.nextPage = next,
                                                !.pc = "delay",
                                                !.log = Append(@, [kind |-> "page",
                                                                   body |-> body,
                                                                   next |-> next])]
                         ELSE [zfetch[f] EXCEPT !.all = @ \o body]]
    /\ UNCHANGED <<platform, dedupVars, normVars, runVars, convertVars, ZENDESK_CONFIG, api,
                   zpc, zfiles>>

\* the response has records: concat, nextPage = response.next_page, and the
\* function awaits its 100 ms delay
PageArrives(e) ==
    /\ zpc = "fetching"
    /\ zfetch[e].pc = "waiting"
    /\ \E body \in api[e].bodies, next \in { Null, NextPageUrl(zfetch[e].sent) } :
        /\ next # Null => zfetch[e].sent < api[e].pages
        /\ zfetch' = [zfetch EXCEPT ![e].all = @ \o body,
                                    ![e].nextPage = next,
                                    ![e].pc = "delay",
                                    ![e].log = Append(@, [kind |-> "page", body |-> body,
                                                          next |-> next])]
    /\ UNCHANGED <<platform, dedupVars, normVars, runVars, convertVars, ZENDESK_CONFIG, api,
                   zpc, zfiles>>

\* the response has no records (an empty array or no such field): break,
\* and the function returns what it has
EmptyResponse(e) ==
    /\ zpc = "fetching"
    /\ zfetch[e].pc = "waiting"
    /\ zfetch' = [zfetch EXCEPT ![e].pc = "returned",
                                ![e].log = Append(@, [kind |-> "empty", body |-> <<>>,
                                                      next |-> Null])]
    /\ UNCHANGED <<platform, dedupVars, normVars, runVars, convertVars, ZENDESK_CONFIG, api,
                   zpc, zfiles>>

\* the request is rejected (network error, timeout, a body that is not
\* JSON): the catch of the fetch function returns what it has
RequestRejected(e) ==
    /\ zpc = "fetching"
    /\ zfetch[e].pc = "waiting"
    /\ zfetch' = [zfetch EXCEPT ![e].pc = "returned",
                                ![e].log = Append(@, [kind |-> "rejected", body |-> <<>>,
                                                      next |-> Null])]
    /\ UNCHANGED <<platform, dedupVars, normVars, runVars, convertVars, ZENDESK_CONFIG, api,
                   zpc, zfiles>>

\* the delay is over: the while condition, and either the next pass up to
\* its request or the return
DelayOver(e) ==
    /\ zpc = "fetching"
    /\ zfetch[e].pc = "delay"
    /\ IF WhileCondition(zfetch[e].nextPage, zfetch[e].pageCount, PageLimit(e))
       THEN zfetch' = [zfetch EXCEPT ![e].pageCount = @ + 1,
                                     ![e].sent = @ + 1,
                                     ![e].cursor = zfetch[e].nextPage,
                                     ![e].pc = "waiting"]
       ELSE zfetch' = [zfetch EXCEPT ![e].pc = "returned"]
    /\ UNCHANGED <<platform, dedupVars, normVars, runVars, convertVars, ZENDESK_CONFIG, api,
                   zpc, zfiles>>

\* both promises are fulfilled: the rest of scrapeZendeskData. Nothing is
\* written when there is no ticket; an exception of the conversion, of the
\* CSV map or of a write goes to the catch, after the writes before it
AfterFetches ==
    /\ zpc = "fetching"
    /\ \A e \in Endpoints : zfetch[e].pc = "returned"
    /\ tickets' = zfetch["tickets"].all
    /\ satisfactionRatings' = zfetch["satisfaction_ratings"].all
    /\ IF Len(tickets') = 0
       THEN /\ zpc' = "no tickets"
            /\ UNCHANGED <<ticketReviews, zfiles>>
       ELSE \E rnds \in [1..Len(tickets') -> RandomSuffixes] :
                LET result == convertTicketsToReviews(tickets', satisfactionRatings', rnds)
                IN  IF result.threw \/ ZendeskCsvThrows(result.reviews)
                    THEN /\ zpc' = "failed"
                         /\ ticketReviews' = result.reviews
                         /\ UNCHANGED zfiles
                    ELSE /\ ticketReviews' = result.reviews
                         /\ \E done \in 0..Len(ZendeskFiles) :
                                /\ zfiles' = { ZendeskFiles[k] : k \in 1..done }
                                /\ zpc' = IF done = Len(ZendeskFiles)
                                          THEN "done" ELSE "failed"
    /\ UNCHANGED <<platform, dedupVars, normVars, runVars, zstage, ZENDESK_CONFIG, api,
                   zfetch>>

NextZendesk ==
    \/ Validate
    \/ \E e \in Endpoints : PageArrives(e)
    \/ \E e \in Endpoints : EmptyResponse(e)
    \/ \E e \in Endpoints : RequestRejected(e)
    \/ \E e \in Endpoints : DelayOver(e)
    \/ AfterFetches

SpecZendesk == InitZendesk /\ [][NextZendesk]_vars

(***************************************************************************)
(* Claims about scrapeZendeskData                                          *)
(***************************************************************************)
\* the requests sent so far: the calls of makeZendeskRequest and of
\* makeZendeskRequestFromUrl
ZendeskRequests ==
    IF zfetch = <<>> THEN 0
    ELSE zfetch["tickets"].sent + zfetch["satisfaction_ratings"].sent

\* C16: when the subdomain, the email or the API token is missing or still
\* its placeholder, scrapeZendeskData ends with the configuration error
\* before any request: no request is ever sent and no file is written.
C16_BadConfigurationSendsNothing ==
    ( \/ MissingCredentials(ZENDESK_CONFIG)
      \/ ZENDESK_CONFIG.subdomain = YourSubdomain
      \/ ZENDESK_CONFIG.email = YourEmail
      \/ ZENDESK_CONFIG.apiToken = YourApiToken )
    => /\ zpc \in { "start", "config error" }
       /\ ZendeskRequests = 0
       /\ zfiles = {}

\* the run ended with the configuration error on a placeholder token
C16_Witness ==
    /\ zpc = "config error"
    /\ ~MissingCredentials(ZENDESK_CONFIG)
    /\ ZENDESK_CONFIG.apiToken = YourApiToken
    /\ ZENDESK_CONFIG.subdomain # YourSubdomain
    /\ ZendeskRequests = 0

\* a fetch function run by itself on the responses of log, from its pass
\* number k with all fetched so far: what it returns, or "unfinished" when
\* the responses end before the function does
RECURSIVE FetchAlone(_, _, _, _)
FetchAlone(e, log, k, all) ==
    IF k > Len(log) THEN [finished |-> FALSE, all |-> all]
    ELSE IF log[k].kind # "page" THEN [finished |-> TRUE, all |-> all]
    ELSE IF WhileCondition(log[k].next, k, PageLimit(e))
         THEN FetchAlone(e, log, k + 1, all \o log[k].body)
         ELSE [finished |-> (k = Len(log)), all |-> all \o log[k].body]

\* C25: the two fetches of scrapeZendeskData share no state: in every
\* interleaving each returns what it returns when it runs by itself on the
\* same responses, a failure of one leaves the other running and its result
\* as it is, and the conversion starts only when both have returned, on what
\* they returned.
C25_FetchesIndependent ==
    /\ [](zfetch # <<>> =>
            \A e \in Endpoints :
                /\ zfetch[e].pc = "returned"
                   => FetchAlone(e, zfetch[e].log, 1, <<>>) =
                          [finished |-> TRUE, all |-> zfetch[e].all]
                /\ zfetch[e].pc # "returned"
                   => FetchAlone(e, zfetch[e].log, 1, <<>>).all = zfetch[e].all)
    /\ [](zpc \in { "done", "failed", "no tickets" } =>
            /\ \A e \in Endpoints : zfetch[e].pc = "returned"
            /\ tickets = zfetch["tickets"].all
            /\ satisfactionRatings = zfetch["satisfaction_ratings"].all)
    /\ [](zpc \in { "start", "fetching", "config error" } => ticketReviews = <<>>)
    /\ [][zfetch # <<>> /\ zfetch' # <<>> =>
            \A e \in Endpoints :
                zfetch'[e] # zfetch[e] =>
                    \A f \in Endpoints \ {e} : zfetch'[f] = zfetch[f]]_vars

\* the rating fetch failed on its first request and the ticket fetch went
\* on to return two pages, which were converted
C25_Witness ==
    /\ zpc = "done"
    /\ zfetch["satisfaction_ratings"].log = << [kind |-> "rejected", body |-> <<>>,
                                                next |-> Null] >>
    /\ Len(zfetch["tickets"].log) = 2
    /\ Len(tickets) = 2
    /\ Len(ticketReviews) = 2

(***************************************************************************)
(* The page ceilings: the fetch loops against a source that never runs out *)
(* of pages. Every request is answered or fails (the Zendesk requests have *)
(* a 30 s timeout) and every timer fires, which is the fairness of         *)
(* SpecCeiling.                                                            *)
(***************************************************************************)
\* valid credentials and an API that has a next page after every page of
\* one endpoint, and up to MaxZendeskPages pages of the other (the two
\* fetch functions share no variable)
InitZendeskCeiling ==
    /\ ZendeskStart
    /\ ZENDESK_CONFIG = [subdomain |-> Str(<< "m" >>), email |-> Str(<< "e" >>),
                         apiToken |-> Str(<< "k" >>)]
    /\ \E endless \in Endpoints, np \in 1..MaxZendeskPages :
           api = [e \in Endpoints |->
                     [pages |-> IF e = endless THEN PageLimit(e) + 1 ELSE np,
                      bodies |-> IF e = "tickets" THEN { << WellFormedTicket >> }
                                 ELSE { << Satisfaction(Num(1), Good) >> }]]

InitCeiling == Init \/ InitZendeskCeiling

\* the steps of the worldwide run and of the two Zendesk fetches
NextCeiling ==
    \/ Next
    \/ Validate
    \/ \E e \in Endpoints : PageArrives(e)
    \/ \E e \in Endpoints : EmptyResponse(e)
    \/ \E e \in Endpoints : RequestRejected(e)
    \/ \E e \in Endpoints : DelayOver(e)

\* the event loop runs what is ready: the synchronous steps of the
\* scheduler, the continuation of an answered or failed request, the
\* continuation of an elapsed delay
EventLoopFairness ==
    /\ WF_vars(StartCountry)
    /\ WF_vars(SendRequest)
    /\ WF_vars(AppStorePage \/ GooglePlayPage \/ RequestFails)
    /\ WF_vars(CountryDone)
    /\ WF_vars(Validate)
    /\ \A e \in Endpoints :
           /\ WF_vars(PageArrives(e) \/ EmptyResponse(e) \/ RequestRejected(e))
           /\ WF_vars(DelayOver(e))

SpecCeiling == InitCeiling /\ [][NextCeiling]_vars /\ EventLoopFairness

\* no loop runs any more: the for loop over the countries has ended (what
\* follows it is the straight-line code of Finish), or both Zendesk fetches
\* have returned
FetchingOver ==
    \/ script = "worldwide" /\ pc = "loop" /\ ~(i < Len(COUNTRIES))
    \/ pc \in { "done", "failed" }
    \/ zpc = "fetching" /\ \A e \in Endpoints : zfetch[e].pc = "returned"

\* C18: whatever the source answers, the requests sent for one country
\* never exceed maxPages (tickets: 200, satisfaction ratings: 50), the
\* requests of a worldwide run never exceed maxPages times the number of
\* countries, and the run comes to the end of its loops.
C18_RequestsBelowCeilingAndRunEnds ==
    /\ [](/\ \A r \in 1..Len(COUNTRIES) : RequestsTo(r, Len(requests)) <= maxPages
          /\ Len(requests) <= maxPages * Len(COUNTRIES)
          /\ zfetch # <<>> => \A e \in Endpoints : zfetch[e].sent <= PageLimit(e))
    /\ <>FetchingOver

\* the fetch of the tickets stopped at its ceiling with a next page left
C18_Witness ==
    /\ zpc = "fetching"
    /\ \A e \in Endpoints : zfetch[e].pc = "returned"
    /\ zfetch["tickets"].sent = TicketPageLimit
    /\ zfetch["tickets"].nextPage = NextPageUrl(TicketPageLimit)
    /\ Len(zfetch["tickets"].all) = TicketPageLimit

(***************************************************************************)
(* The fetches that page by cursor: the Google Play fetch of a country and *)
(* the two Zendesk fetches                                                 *)
(***************************************************************************)
InitCursor ==
    \/ Init /\ platform = "google_play"
    \/ InitZendesk /\ ~MissingCredentials(ZENDESK_CONFIG)
                   /\ ~PlaceholderCredentials(ZENDESK_CONFIG)

NextCursor ==
    \/ StartCountry
    \/ SendRequest
    \/ GooglePlayPage
    \/ RequestFails
    \/ CountryDone
    \/ Finish
    \/ NextZendesk

SpecCursor == InitCursor /\ [][NextCursor]_vars

\* the requests of the running Google Play fetch, in the order of sending
FetchRequests == SelectSeq(requests, LAMBDA q : q.country = i + 1)

\* C24: in the fetches that page by cursor the first request carries no
\* cursor, every later request carries the cursor of the response before
\* it, and after a response without a next cursor or with an empty page no
\* further request is sent.
C24_CursorChain ==
    /\ [](FetchRuns =>
            /\ \A k \in 1..Len(FetchRequests) :
                   FetchRequests[k].token =
                       IF k = 1 THEN Undefined ELSE TokenAfter(k - 1)
            /\ \A k \in 1..Len(pageLog) :
                   k < Len(FetchRequests) => pageLog[k].next /\ pageLog[k].n > 0
            /\ Len(FetchRequests) <= Len(pageLog) + 1)
    /\ [](zfetch # <<>> =>
            \A e \in Endpoints :
                /\ zfetch[e].cursor =
                       IF zfetch[e].sent = 1 THEN Null ELSE NextPageUrl(zfetch[e].sent - 1)
                /\ (zfetch[e].pc = "waiting" /\ zfetch[e].sent > 1)
                   => zfetch[e].nextPage = zfetch[e].cursor)
    /\ [][zfetch # <<>> =>
            \A e \in Endpoints :
                ( \/ zfetch[e].pc = "returned"
                  \/ zfetch[e].pc = "delay" /\ Falsy(zfetch[e].nextPage) )
                => zfetch'[e].sent = zfetch[e].sent]_vars

\* the ticket fetch has sent its second request to the URL of the first
\* response
C24_Witness ==
    /\ zpc = "fetching"
    /\ zfetch["tickets"].pc = "waiting"
    /\ zfetch["tickets"].sent = 2
    /\ zfetch["tickets"].cursor = NextPageUrl(1)
    /\ zfetch["satisfaction_ratings"].pc = "returned"
    /\ Falsy(zfetch["satisfaction_ratings"].nextPage)
    /\ zfetch["satisfaction_ratings"].sent = 1

====
